---------------------------- MODULE Spec2Model ----------------------------
(***************************************************************************)
(* A model of erudify's engines (src/bin/cli):                             *)
(*   - the memory model and the scheduler of model.rs (Proficiency,        *)
(*     UserModel::with_proficiency / next_word / ...),                     *)
(*   - the scoring of Exercises in model.rs (score_exercise,               *)
(*     next_exercise, mark_seen, status),                                  *)
(*   - the drill-record views of convert.rs (Exercise::words / chinese),   *)
(*   - the alignment of convert.rs (Segment::join_with),                   *)
(*   - the training session of train.rs (App::new, run_app),               *)
(*   - the reading of transcripts (Exercise::parse, main.rs Convert),      *)
(*   - the ordering of a course (main.rs Tile).                            *)
(*                                                                         *)
(* Times.  chrono's Duration and DateTime<Utc> count nanoseconds.  A value *)
(* is held here as chrono holds it, [secs, nanos] with 0 <= nanos <        *)
(* NanosPerSec, so that 5 seconds and its fiftieths are the numbers the    *)
(* program computes with (5 s = 5 000 000 000 ns does not fit one integer  *)
(* of the model checker).  A negative Duration has secs < 0, nanos >= 0.   *)
(* chrono panics on overflow (a DateTime past the year 262143); the bounds *)
(* below keep every value far from that.                                   *)
(***************************************************************************)
EXTENDS Integers, Sequences, FiniteSets, TLC

VARIABLES
    seen_words,       \* UserModel.seen_words: word -> Proficiency
    seen_exercises,   \* UserModel.seen_exercises: Exercise -> DateTime
    now,              \* the clock read by Utc::now()
    ret,              \* the last call: its arguments, the state before, the result
    last_update,      \* history: word -> the time and kind of its last update
    nOps,             \* number of updates made so far (bounded)
    exercise,         \* the Exercise under view (Exercise::words, ...)
    orig_chinese,     \* join_with: the argument orig_chinese
    orig_pinyin,      \* join_with: the argument orig_pinyin
    strict_segmentation, \* join_with: the argument strict_segmentation
    lax_pinyin,       \* join_with: the argument lax_pinyin
    chinese,          \* join_with: the Chinese cursor
    pinyin,           \* join_with: the romanized cursor
    segments,         \* join_with: the segments committed so far
    outcome,          \* join_with: "idle", "running", "ok" or the panic
    app_word_list,    \* App.word_list
    app_exercises,    \* App.exercises
    app_target_word,  \* App.target_word
    app_exercise,     \* App.exercise
    app_index,        \* App.index
    app_input,        \* App.input: the text typed so far
    app_show_hint,    \* App.show_hint
    stored,           \* the UserModel in user_model.yaml
    session,          \* train: "off", "start", "running", "exited", "panicked"
    lax_segmentation, \* Convert: the flag --lax-segmentation
    strict_pinyin,    \* Convert: the flag --strict-pinyin
    rest,             \* Convert: the lines of the file still to be parsed
    printed,          \* Convert: the Exercises printed so far
    convert,          \* Convert: off, running, done or the panic
    tile_words,       \* Tile: words, the word list as loaded
    tile_exercises,   \* Tile: exercises
    assumed_words,    \* Tile: assumed_words, those still to be taken
    tile_word,        \* Tile: word, the last result of next_word
    tile_printed,     \* Tile: what the turns printed so far
    tile              \* Tile: off, start, running, done or the panic

schedVars == <<seen_words, seen_exercises, now, ret, last_update, nOps>>
viewVars  == <<exercise>>
alignVars == <<orig_chinese, orig_pinyin, strict_segmentation, lax_pinyin,
               chinese, pinyin, segments, outcome>>
trainVars == <<app_word_list, app_exercises, app_target_word, app_exercise,
               app_index, app_input, app_show_hint, stored, session>>
convVars == <<lax_segmentation, strict_pinyin, rest, printed, convert>>
tileVars == <<tile_words, tile_exercises, assumed_words, tile_word,
              tile_printed, tile>>
vars == <<seen_words, seen_exercises, now, ret, last_update, nOps, exercise,
          orig_chinese, orig_pinyin, strict_segmentation, lax_pinyin,
          chinese, pinyin, segments, outcome,
          app_word_list, app_exercises, app_target_word, app_exercise,
          app_index, app_input, app_show_hint, stored, session,
          lax_segmentation, strict_pinyin, rest, printed, convert,
          tile_words, tile_exercises, assumed_words, tile_word,
          tile_printed, tile>>

---------------------------------------------------------------------------
(* Bounds of the model.                                                    *)

\* updates (with_proficiency, success, fail) in one behaviour of Spec
MaxOps == 4
\* updates of the one record in one behaviour of SpecMem
MaxMemOps == 8
\* the clock of Spec runs from 0 to MaxNow seconds
MaxNow == 1
\* the clock of SpecMem runs from 0 to MaxMemNow seconds
MaxMemNow == 6
\* longest target word list passed to next_word
MaxListLen == 2
\* most segments of an Exercise under view
MaxSegs == 4
\* most updates of the model before an Exercise is scored
MaxScoreOps == 2
\* most key events of a training session
MaxTrainEvents == 4
\* longest Chinese text given to join_with, in characters
MaxChineseLen == 2
\* longest romanized text given to join_with, in tokens of PinyinTokens
MaxPinyinTokens == 2

---------------------------------------------------------------------------
(* chrono::Duration and chrono::DateTime<Utc>.                             *)

NanosPerSec == 1000000000
InitialSecs == 5
LightDivisor == 50
StrongFactor == 4

Seconds(n) == [secs |-> n, nanos |-> 0]

Zero == Seconds(0)

\* a + b, both normalised
DurAdd(a, b) ==
    LET n == a.nanos + b.nanos
    IN  IF n >= NanosPerSec
        THEN [secs |-> a.secs + b.secs + 1, nanos |-> n - NanosPerSec]
        ELSE [secs |-> a.secs + b.secs, nanos |-> n]

\* a - b, normalised (secs may become negative)
DurSub(a, b) ==
    LET n == a.nanos - b.nanos
    IN  IF n < 0
        THEN [secs |-> a.secs - b.secs - 1, nanos |-> n + NanosPerSec]
        ELSE [secs |-> a.secs - b.secs, nanos |-> n]

\* a * k for a natural k
RECURSIVE DurMul(_, _)
DurMul(a, k) == IF k = 0 THEN Zero ELSE DurAdd(DurMul(a, k - 1), a)

\* a / k for a >= 0 and k > 0 dividing NanosPerSec: the count of nanoseconds
\* divided by k, the fraction of a nanosecond dropped
DurDiv(a, k) ==
    LET carry == a.secs % k
    IN  [secs  |-> a.secs \div k,
         nanos |-> (a.nanos \div k) + carry * (NanosPerSec \div k)]

DurAbs(a) ==
    IF a.secs < 0 /\ a.nanos # 0
    THEN [secs |-> -(a.secs + 1), nanos |-> NanosPerSec - a.nanos]
    ELSE [secs |-> IF a.secs < 0 THEN -a.secs ELSE a.secs, nanos |-> a.nanos]

DurLess(a, b) == a.secs < b.secs \/ (a.secs = b.secs /\ a.nanos < b.nanos)

DurLeq(a, b) == a = b \/ DurLess(a, b)

---------------------------------------------------------------------------
(* Proficiency (model.rs 12-32).                                           *)

\* fail with the due date taken before the strength is reset
fail_DateFromOldStrength(p, at) ==
    [target_date |-> DurAdd(at, p.memory_strength),
     memory_strength |-> Seconds(InitialSecs)]

fail(p, at) ==
    LET ms == Seconds(InitialSecs)
    IN  [target_date |-> DurAdd(at, ms), memory_strength |-> ms]

\* success with self.target_date >= at as the test
success_DueTestGe(p, at) ==
    LET ms == IF DurLeq(at, p.target_date)
              THEN DurAdd(p.memory_strength,
                          DurDiv(p.memory_strength, LightDivisor))
              ELSE DurAdd(p.memory_strength,
                          DurMul(p.memory_strength, StrongFactor))
    IN  [target_date |-> DurAdd(at, ms), memory_strength |-> ms]

\* success with memory_strength / 5 as the light reinforcement
success_LightFifth(p, at) ==
    LET ms == IF DurLess(at, p.target_date)
              THEN DurAdd(p.memory_strength,
                          DurDiv(p.memory_strength, InitialSecs))
              ELSE DurAdd(p.memory_strength,
                          DurMul(p.memory_strength, StrongFactor))
    IN  [target_date |-> DurAdd(at, ms), memory_strength |-> ms]

\* success with the light reinforcement taken off the strength
success_LightShrinks(p, at) ==
    LET ms == IF DurLess(at, p.target_date)
              THEN DurSub(p.memory_strength,
                          DurDiv(p.memory_strength, LightDivisor))
              ELSE DurAdd(p.memory_strength,
                          DurMul(p.memory_strength, StrongFactor))
    IN  [target_date |-> DurAdd(at, ms), memory_strength |-> ms]

success(p, at) ==
    LET ms == IF DurLess(at, p.target_date)
              THEN DurAdd(p.memory_strength,
                          DurDiv(p.memory_strength, LightDivisor))
              ELSE DurAdd(p.memory_strength,
                          DurMul(p.memory_strength, StrongFactor))
    IN  [target_date |-> DurAdd(at, ms), memory_strength |-> ms]

\* the record with_proficiency inserts for a word not seen before
\* a first Proficiency that is due one memory_strength after its creation
NewProficiency_DueLater(at) ==
    [target_date |-> DurAdd(at, Seconds(InitialSecs)),
     memory_strength |-> Seconds(InitialSecs)]

NewProficiency(at) ==
    [target_date |-> at, memory_strength |-> Seconds(InitialSecs)]

---------------------------------------------------------------------------
(* Exercise and its views (convert.rs 4-63).  A text is a sequence of      *)
(* characters; a Chinese character is written by its name in capitals, a   *)
(* vowel with a tone mark as the vowel followed by the tone's digit.       *)

\* Vec::dedup: of each run of equal neighbours the first is kept
RECURSIVE Dedup(_)
Dedup(ws) ==
    IF Len(ws) <= 1
    THEN ws
    ELSE IF ws[1] = ws[2]
         THEN Dedup(Tail(ws))
         ELSE <<ws[1]>> \o Dedup(Tail(ws))

HasReading(seg) == seg.pinyin # <<>>

RECURSIVE MapChinese(_)
MapChinese(segs) ==
    IF segs = <<>> THEN <<>>
    ELSE <<Head(segs).chinese>> \o MapChinese(Tail(segs))

words(ex) == Dedup(MapChinese(SelectSeq(ex.segments, HasReading)))

\* join(""): the texts one after the other
RECURSIVE Exercise_chinese(_)
Exercise_chinese(ex) ==
    IF ex.segments = <<>> THEN <<>>
    ELSE Head(ex.segments).chinese
            \o Exercise_chinese([ex EXCEPT !.segments = Tail(@)])

\* join(" "): a space between every two segments' readings
RECURSIVE Exercise_pinyin(_)
Exercise_pinyin(ex) ==
    IF ex.segments = <<>> THEN <<>>
    ELSE IF Len(ex.segments) = 1 THEN ex.segments[1].pinyin
    ELSE Head(ex.segments).pinyin \o <<" ">>
            \o Exercise_pinyin([ex EXCEPT !.segments = Tail(@)])

Segment(c, p) == [chinese |-> c, pinyin |-> p]

ViewSegments ==
    { Segment(<<"WO">>, <<"w", "o3">>),
      Segment(<<"SHI">>, <<"s", "h", "i4">>),
      Segment(<<".">>, <<>>) }

ViewExercises ==
    { [segments |-> segs, english |-> "I am."] :
        segs \in UNION {[1..n -> ViewSegments] : n \in 0..MaxSegs} }

NoExercise == [segments |-> <<>>, english |-> ""]

ViewIdle == exercise = NoExercise

ViewInit == exercise \in ViewExercises

WordsCall ==
    /\ ret' = [op |-> "words", result |-> words(exercise)]
    /\ UNCHANGED <<seen_words, seen_exercises, now, last_update, nOps>>
    /\ UNCHANGED <<viewVars, alignVars, trainVars, convVars, tileVars>>

ChineseCall ==
    /\ ret' = [op |-> "chinese", result |-> Exercise_chinese(exercise)]
    /\ UNCHANGED <<seen_words, seen_exercises, now, last_update, nOps>>
    /\ UNCHANGED <<viewVars, alignVars, trainVars, convVars, tileVars>>

PinyinCall ==
    /\ ret' = [op |-> "pinyin", result |-> Exercise_pinyin(exercise)]
    /\ UNCHANGED <<seen_words, seen_exercises, now, last_update, nOps>>
    /\ UNCHANGED <<viewVars, alignVars, trainVars, convVars, tileVars>>

---------------------------------------------------------------------------
(* Text helpers of convert.rs (161-215) and of str.                        *)

Some(v) == [some |-> TRUE, val |-> v]

None == [some |-> FALSE, val |-> <<>>]

IsPrefix(pre, text) ==
    Len(pre) <= Len(text) /\ SubSeq(text, 1, Len(pre)) = pre

Drop(text, n) == SubSeq(text, n + 1, Len(text))

\* str::strip_prefix
strip_prefix(text, pre) ==
    IF IsPrefix(pre, text) THEN Some(Drop(text, Len(pre))) ELSE None

\* the results taken as they come, not reversed
Reverse_Keep(q) == q

RECURSIVE Reverse(_)
Reverse(q) == IF q = <<>> THEN <<>> ELSE Reverse(Tail(q)) \o <<Head(q)>>

RECURSIVE Without(_, _)
Without(text, c) ==
    IF text = <<>> THEN <<>>
    ELSE IF Head(text) = c THEN Without(Tail(text), c)
    ELSE <<Head(text)>> \o Without(Tail(text), c)

\* char::to_lowercase on the characters of the model
LowerChar(c) == IF c = "N" THEN "n" ELSE c

RECURSIVE to_lowercase(_)
to_lowercase(text) ==
    IF text = <<>> THEN <<>>
    ELSE <<LowerChar(Head(text))>> \o to_lowercase(Tail(text))

IsWhitespace(c) == c = " "

\* trim_start that trims nothing
trim_start_Keep(text) == text

RECURSIVE trim_start(_)
trim_start(text) ==
    IF text # <<>> /\ IsWhitespace(Head(text))
    THEN trim_start(Tail(text))
    ELSE text

\* char::is_alphabetic: letters, with or without tone mark
IsAlphabetic(c) == c \notin {" ", ".", "'"}

\* the rows of strip_tone's table that the model's characters fall in
Tones ==
    << <<"a1", "a2", "a3", "a4", "a">>,
       <<"i1", "i2", "i3", "i4", "i">>,
       <<"o1", "o2", "o3", "o4", "o">> >>

strip_tone(c) ==
    IF \E r \in DOMAIN Tones : \E k \in 1..5 : Tones[r][k] = c
    THEN LET r == CHOOSE r \in DOMAIN Tones : \E k \in 1..5 : Tones[r][k] = c
         IN  Tones[r][5]
    ELSE c

str_tail(text) == IF text = <<>> THEN text ELSE Tail(text)

\* the loop runs while both are non-empty and returns what is left of input
RECURSIVE strip_prefix_no_tones(_, _)
strip_prefix_no_tones(input, prefix) ==
    IF input # <<>> /\ prefix # <<>>
    THEN IF strip_tone(Head(prefix)) # strip_tone(Head(input))
         THEN None
         ELSE strip_prefix_no_tones(Tail(input), Tail(prefix))
    ELSE Some(input)

---------------------------------------------------------------------------
(* The dictionary (haoxue_dict) and prettify_pinyin, which convert.rs      *)
(* calls: a word list of the model's own, with the dictionary's interface. *)

Syl(letters, tone) == [letters |-> letters, tone |-> tone]

Entry(simp, syls) == [simplified |-> simp, pinyin |-> syls]

\* by length of the word, as a search for the prefixes of a text finds them
Dict ==
    << Entry(<<"NI">>, <<Syl(<<"n", "i">>, 3)>>),
       Entry(<<"HAO">>, <<Syl(<<"h", "a", "o">>, 3)>>),
       Entry(<<"HAO">>, <<Syl(<<"h", "a", "o">>, 4)>>),
       Entry(<<"NI", "HAO">>,
             <<Syl(<<"n", "i">>, 3), Syl(<<"h", "a", "o">>, 3)>>),
       Entry(<<"HAO", "NI">>,
             <<Syl(<<"h", "a", "o">>, 3), Syl(<<"n", "i">>, 3)>>),
       Entry(<<"HAO", "NI">>,
             <<Syl(<<"h", "a", "o">>, 4), Syl(<<"n", "i">>, 3)>>) >>

RECURSIVE LookupFrom(_, _)
LookupFrom(i, text) ==
    IF i > Len(Dict) THEN <<>>
    ELSE (IF IsPrefix(Dict[i].simplified, text) THEN <<Dict[i]>> ELSE <<>>)
            \o LookupFrom(i + 1, text)

lookup_entries(text) == LookupFrom(1, text)

\* the vowel that takes the tone mark: a, else o, else the last vowel
MarkAt(letters) ==
    IF \E i \in DOMAIN letters : letters[i] = "a"
    THEN CHOOSE i \in DOMAIN letters : letters[i] = "a"
    ELSE IF \E i \in DOMAIN letters : letters[i] = "o"
    THEN CHOOSE i \in DOMAIN letters : letters[i] = "o"
    ELSE CHOOSE i \in DOMAIN letters :
            /\ letters[i] \in {"a", "i", "o"}
            /\ \A j \in DOMAIN letters :
                  letters[j] \in {"a", "i", "o"} => j <= i

Marked(v, tone) ==
    LET r == CHOOSE r \in DOMAIN Tones : Tones[r][5] = v
    IN  Tones[r][tone]

PrettySyl(syl) ==
    IF syl.tone = 5
    THEN syl.letters
    ELSE [syl.letters EXCEPT ![MarkAt(syl.letters)] = Marked(@, syl.tone)]

\* prettify: "ni3 hao3" becomes "nǐ hǎo", the space kept
RECURSIVE prettify(_)
prettify(syls) ==
    IF syls = <<>> THEN <<>>
    ELSE IF Len(syls) = 1 THEN PrettySyl(syls[1])
    ELSE PrettySyl(Head(syls)) \o <<" ">> \o prettify(Tail(syls))

---------------------------------------------------------------------------
(* Segment::join_with (convert.rs 85-158), one turn of its loop at a time. *)

Running == [kind |-> "running"]

Returned == [kind |-> "ok"]

RECURSIVE MaxLen(_)
MaxLen(results) ==
    IF results = <<>> THEN 0
    ELSE LET m == MaxLen(Tail(results))
             n == Len(Head(results).simplified)
         IN  IF n > m THEN n ELSE m

\* the number of distinct readings among the longest results
NLongest(results) ==
    Cardinality({results[i].pinyin :
        i \in {j \in DOMAIN results :
                  Len(results[j].simplified) = MaxLen(results)}})

\* every unaligned character made a segment of its own
PushUnaligned_AlwaysNew(segs, c) == Append(segs, Segment(<<c>>, <<>>))

\* the match on segments.last_mut(): a run of unaligned characters is one
\* segment
PushUnaligned(segs, c) ==
    IF segs # <<>> /\ segs[Len(segs)].pinyin = <<>>
    THEN [segs EXCEPT ![Len(segs)].chinese = @ \o <<c>>]
    ELSE Append(segs, Segment(<<c>>, <<>>))

\* the for loop comparing tone-insensitively whatever the number of readings
\* of the longest results
RECURSIVE FirstMatch_ManyLongest(_, _, _, _, _)
FirstMatch_ManyLongest(rev, nth, py, results, lax) ==
    IF nth >= Len(rev)
    THEN [found |-> FALSE]
    ELSE LET entry == rev[nth + 1]
             pretty == prettify(entry.pinyin)
             pretty_compact == Without(to_lowercase(pretty), " ")
             stripped ==
                 IF lax /\ MaxLen(results) >= 2 /\ nth = 0
                 THEN strip_prefix_no_tones(py, pretty_compact)
                 ELSE strip_prefix(py, pretty_compact)
         IN  IF stripped.some
             THEN [found |-> TRUE, entry |-> entry, pretty |-> pretty,
                   pretty_compact |-> pretty_compact,
                   new_pinyin |-> stripped.val]
             ELSE FirstMatch_ManyLongest(rev, nth + 1, py, results, lax)

\* the for loop comparing tone-insensitively at every turn, not the first only
RECURSIVE FirstMatch_LaxEveryTurn(_, _, _, _, _)
FirstMatch_LaxEveryTurn(rev, nth, py, results, lax) ==
    IF nth >= Len(rev)
    THEN [found |-> FALSE]
    ELSE LET entry == rev[nth + 1]
             pretty == prettify(entry.pinyin)
             pretty_compact == Without(to_lowercase(pretty), " ")
             stripped ==
                 IF lax /\ MaxLen(results) >= 2 /\ NLongest(results) = 1
                 THEN strip_prefix_no_tones(py, pretty_compact)
                 ELSE strip_prefix(py, pretty_compact)
         IN  IF stripped.some
             THEN [found |-> TRUE, entry |-> entry, pretty |-> pretty,
                   pretty_compact |-> pretty_compact,
                   new_pinyin |-> stripped.val]
             ELSE FirstMatch_LaxEveryTurn(rev, nth + 1, py, results, lax)

\* the for loop over results.iter().rev().enumerate(), from the nth on: the
\* first entry whose reading is a prefix of the romanized cursor
RECURSIVE FirstMatch(_, _, _, _, _)
FirstMatch(rev, nth, py, results, lax) ==
    IF nth >= Len(rev)
    THEN [found |-> FALSE]
    ELSE LET entry == rev[nth + 1]
             pretty == prettify(entry.pinyin)
             pretty_compact == Without(to_lowercase(pretty), " ")
             stripped ==
                 IF lax /\ MaxLen(results) >= 2 /\ NLongest(results) = 1
                        /\ nth = 0
                 THEN strip_prefix_no_tones(py, pretty_compact)
                 ELSE strip_prefix(py, pretty_compact)
         IN  IF stripped.some
             THEN [found |-> TRUE, entry |-> entry, pretty |-> pretty,
                   pretty_compact |-> pretty_compact,
                   new_pinyin |-> stripped.val]
             ELSE FirstMatch(rev, nth + 1, py, results, lax)

\* a commit that leaves the Chinese cursor where it was
Advance_Stay(c, entry) == Some(c)

\* chinese.strip_prefix(entry.simplified()).unwrap() once an entry matched
Advance(c, entry) == strip_prefix(c, entry.simplified)

\* a turn where a match that ends inside a longer word is reported as a
\* failed alignment
join_step_StrictTriesOn(c, p, segs, strict, lax, oc, op) ==
    LET py == trim_start(p)
        results == lookup_entries(c)
        go(step, c2, p2, s2) ==
            [step |-> step, chinese |-> c2, pinyin |-> p2, segments |-> s2,
             outcome |-> Running]
        stop(step, o) ==
            [step |-> step, chinese |-> c, pinyin |-> py, segments |-> segs,
             outcome |-> o]
    IN  IF results = <<>>
        THEN go("unaligned", Tail(c), str_tail(py),
                PushUnaligned(segs, Head(c)))
        ELSE LET m == FirstMatch(Reverse(results), 0, py, results, lax)
             IN  IF ~m.found
                 THEN stop("failed",
                           [kind |-> "panic", msg |-> "Failed to align match",
                            chinese |-> oc, pinyin |-> op, at |-> py])
                 ELSE IF strict /\ m.new_pinyin = <<>>
                 THEN stop("unwrap_none",
                           [kind |-> "panic",
                            msg |-> "called Option::unwrap() on a None value"])
                 ELSE IF strict /\ IsAlphabetic(Head(m.new_pinyin))
                 THEN stop("failed",
                           [kind |-> "panic", msg |-> "Failed to align match",
                            chinese |-> oc, pinyin |-> op, at |-> py])
                 ELSE IF ~Advance(c, m.entry).some
                 THEN stop("unwrap_none",
                           [kind |-> "panic",
                            msg |-> "called Option::unwrap() on a None value"])
                 ELSE go("commit", Advance(c, m.entry).val, m.new_pinyin,
                         Append(segs, Segment(m.entry.simplified, m.pretty)))

\* one turn of the loop 'top on (chinese, pinyin, segments): what it leaves
\* and how it ends -- "unaligned" and "commit" go on to the next turn, the
\* others are panics
join_step(c, p, segs, strict, lax, oc, op) ==
    LET py == trim_start(p)
        results == lookup_entries(c)
        go(step, c2, p2, s2) ==
            [step |-> step, chinese |-> c2, pinyin |-> p2, segments |-> s2,
             outcome |-> Running]
        stop(step, o) ==
            [step |-> step, chinese |-> c, pinyin |-> py, segments |-> segs,
             outcome |-> o]
    IN  IF results = <<>>
        THEN go("unaligned", Tail(c), str_tail(py),
                PushUnaligned(segs, Head(c)))
        ELSE LET m == FirstMatch(Reverse(results), 0, py, results, lax)
             IN  IF ~m.found
                 THEN stop("failed",
                           [kind |-> "panic", msg |-> "Failed to align match",
                            chinese |-> oc, pinyin |-> op, at |-> py])
                 ELSE IF strict /\ m.new_pinyin = <<>>
                 THEN stop("unwrap_none",
                           [kind |-> "panic",
                            msg |-> "called Option::unwrap() on a None value"])
                 ELSE IF strict /\ IsAlphabetic(Head(m.new_pinyin))
                 THEN stop("segmentation",
                           [kind |-> "panic", msg |-> "Segmentation failed",
                            reading |-> m.pretty_compact, at |-> py])
                 ELSE IF ~Advance(c, m.entry).some
                 THEN stop("unwrap_none",
                           [kind |-> "panic",
                            msg |-> "called Option::unwrap() on a None value"])
                 ELSE go("commit", Advance(c, m.entry).val, m.new_pinyin,
                         Append(segs, Segment(m.entry.simplified, m.pretty)))

ChineseChars == {"NI", "HAO", ".", " "}

ChineseTexts == UNION {[1..n -> ChineseChars] : n \in 0..MaxChineseLen}

PinyinTokens ==
    { <<"n", "i3">>, <<"N", "i3">>, <<"h", "a3", "o">>,
      <<" ">>, <<".">>, <<"'">> }

RECURSIVE Flatten(_)
Flatten(ts) == IF ts = <<>> THEN <<>> ELSE Head(ts) \o Flatten(Tail(ts))

PinyinTexts ==
    {Flatten(ts) : ts \in UNION {[1..n -> PinyinTokens] : n \in 0..MaxPinyinTokens}}

StripSpaces_Keep(text) == text

\* orig_chinese.replace(' ', "")
StripSpaces(text) == Without(text, " ")

\* the statements before the loop
AlignInit ==
    /\ orig_chinese \in ChineseTexts
    /\ orig_pinyin \in PinyinTexts
    /\ strict_segmentation \in BOOLEAN
    /\ lax_pinyin \in BOOLEAN
    /\ segments = <<>>
    /\ pinyin = Without(to_lowercase(orig_pinyin), "'")
    /\ chinese = StripSpaces(orig_chinese)
    /\ outcome = Running

\* a turn of the loop that ends as step says
AlignStep(step) ==
    /\ outcome = Running
    /\ chinese # <<>>
    /\ LET r == join_step(chinese, pinyin, segments, strict_segmentation,
                          lax_pinyin, StripSpaces(orig_chinese), orig_pinyin)
       IN  /\ r.step = step
           /\ chinese' = r.chinese
           /\ pinyin' = r.pinyin
           /\ segments' = r.segments
           /\ outcome' = r.outcome
    /\ UNCHANGED <<orig_chinese, orig_pinyin, strict_segmentation, lax_pinyin>>
    /\ UNCHANGED <<schedVars, viewVars, trainVars, convVars, tileVars>>

\* the loop ends, segments is returned
AlignReturn ==
    /\ outcome = Running
    /\ chinese = <<>>
    /\ outcome' = Returned
    /\ UNCHANGED <<orig_chinese, orig_pinyin, strict_segmentation, lax_pinyin,
                   chinese, pinyin, segments>>
    /\ UNCHANGED <<schedVars, viewVars, trainVars, convVars, tileVars>>

---------------------------------------------------------------------------
(* Segment::join_with from its arguments to its result.                    *)

RECURSIVE join_loop(_, _, _, _, _, _, _)
RECURSIVE join_on(_, _, _, _, _)
\* the loop 'top of join_with: the segments, or the panic
join_loop(c, p, segs, strict, lax, oc, op) ==
    IF c = <<>> THEN [kind |-> "ok", segments |-> segs]
    ELSE join_on(join_step(c, p, segs, strict, lax, oc, op), strict, lax,
                 oc, op)

\* after a turn r of the loop: the next turn, or the panic
join_on(r, strict, lax, oc, op) ==
    IF r.outcome = Running
    THEN join_loop(r.chinese, r.pinyin, r.segments, strict, lax, oc, op)
    ELSE r.outcome

join_with(oc, op, strict, lax) ==
    join_loop(StripSpaces(oc), Without(to_lowercase(op), "'"), <<>>,
              strict, lax, StripSpaces(oc), op)

---------------------------------------------------------------------------
(* UserModel (model.rs 61-90, 256-290).                                    *)

Words == {"wo", "shi", "chi"}

NoWords == [w \in {} |-> Zero]

\* with_proficiency on a map that keeps the entry of word alone
with_proficiency_DropsOthers(sw, word, at) ==
    [w \in {word} |-> IF word \in DOMAIN sw THEN sw[word]
                      ELSE NewProficiency(at)]

\* with_proficiency with insert in place of entry().or_insert()
with_proficiency_Insert(sw, word, at) ==
    [w \in DOMAIN sw \cup {word} |->
        IF w = word THEN NewProficiency(at) ELSE sw[w]]

\* or_insert: the record of a word already seen is kept as it is
with_proficiency(sw, word, at) ==
    IF word \in DOMAIN sw
    THEN sw
    ELSE [w \in DOMAIN sw \cup {word} |->
            IF w = word THEN NewProficiency(at) ELSE sw[w]]

seen(sw, word) == word \in DOMAIN sw

Ok(v) == [ok |-> TRUE, val |-> v, msg |-> ""]

Panic(m) == [ok |-> FALSE, val |-> "", msg |-> m]

\* WordScore with Unseen declared before SeenDue
WordScore_UnseenFirst(sw, at, idx, word) ==
    IF word \in DOMAIN sw
    THEN LET diff == DurSub(sw[word].target_date, at)
         IN  IF DurLeq(diff, Zero)
             THEN [tier |-> 1, diff |-> DurAbs(diff), idx |-> 0]
             ELSE [tier |-> 2, diff |-> diff, idx |-> 0]
    ELSE [tier |-> 0, diff |-> Zero, idx |-> idx]

\* WordScore with SeenDue { diff } in place of SeenDue { diff: diff.abs() }
WordScore_NoAbs(sw, at, idx, word) ==
    IF word \in DOMAIN sw
    THEN LET diff == DurSub(sw[word].target_date, at)
         IN  IF DurLeq(diff, Zero)
             THEN [tier |-> 0, diff |-> diff, idx |-> 0]
             ELSE [tier |-> 2, diff |-> diff, idx |-> 0]
    ELSE [tier |-> 1, diff |-> Zero, idx |-> idx]

\* the key of next_word; tier 0 SeenDue, 1 Unseen, 2 SeenFuture, in the
\* order the enum declares them; idx counts from 0 as enumerate() does
WordScore(sw, at, idx, word) ==
    IF word \in DOMAIN sw
    THEN LET diff == DurSub(sw[word].target_date, at)
         IN  IF DurLeq(diff, Zero)
             THEN [tier |-> 0, diff |-> DurAbs(diff), idx |-> 0]
             ELSE [tier |-> 2, diff |-> diff, idx |-> 0]
    ELSE [tier |-> 1, diff |-> Zero, idx |-> idx]

\* the derived Ord of WordScore: the variant first, then its field
WordScoreLess(a, b) ==
    \/ a.tier < b.tier
    \/ /\ a.tier = b.tier
       /\ IF a.tier = 1 THEN a.idx < b.idx ELSE DurLess(a.diff, b.diff)

\* max_by_key in place of min_by_key (the last greatest element)
RECURSIVE MinWordIdx_MaxByKey(_, _, _, _, _)
MinWordIdx_MaxByKey(sw, at, word_list, i, best) ==
    IF i > Len(word_list)
    THEN best
    ELSE MinWordIdx_MaxByKey(sw, at, word_list, i + 1,
            IF WordScoreLess(WordScore(sw, at, i - 1, word_list[i]),
                             WordScore(sw, at, best - 1, word_list[best]))
            THEN best ELSE i)

\* Iterator::min_by_key over word_list[i..], best so far at position best:
\* a later element replaces the best one only when its key is smaller
RECURSIVE MinWordIdx(_, _, _, _, _)
MinWordIdx(sw, at, word_list, i, best) ==
    IF i > Len(word_list)
    THEN best
    ELSE MinWordIdx(sw, at, word_list, i + 1,
            IF WordScoreLess(WordScore(sw, at, i - 1, word_list[i]),
                             WordScore(sw, at, best - 1, word_list[best]))
            THEN i ELSE best)

\* next_word with unwrap_or_default() in place of expect(..)
next_word_DefaultOnEmpty(sw, at, word_list) ==
    IF word_list = <<>>
    THEN Ok("")
    ELSE Ok(word_list[MinWordIdx(sw, at, word_list, 2, 1)])

next_word(sw, at, word_list) ==
    IF word_list = <<>>
    THEN Panic("word_list must not be empty")
    ELSE Ok(word_list[MinWordIdx(sw, at, word_list, 2, 1)])

---------------------------------------------------------------------------
(* The scheduler as a state machine: the calls a client of UserModel makes *)

WordLists == UNION {[1..n -> Words] : n \in 0..MaxListLen}

NoCall == [op |-> "none"]

SchedInit ==
    /\ seen_words = NoWords
    /\ seen_exercises = <<>>
    /\ now = Zero
    /\ ret = NoCall
    /\ last_update = NoWords
    /\ nOps = 0

AlignIdle ==
    /\ orig_chinese = <<>>
    /\ orig_pinyin = <<>>
    /\ strict_segmentation = FALSE
    /\ lax_pinyin = FALSE
    /\ chinese = <<>>
    /\ pinyin = <<>>
    /\ segments = <<>>
    /\ outcome = [kind |-> "idle"]

\* no training session
TrainIdle ==
    /\ app_word_list = <<>>
    /\ app_exercises = <<>>
    /\ app_target_word = <<>>
    /\ app_exercise = NoExercise
    /\ app_index = 0
    /\ app_input = <<>>
    /\ app_show_hint = FALSE
    /\ stored = [seen_words |-> NoWords, seen_exercises |-> <<>>]
    /\ session = "off"

\* Convert is not running
ConvertIdle ==
    /\ lax_segmentation = FALSE
    /\ strict_pinyin = FALSE
    /\ rest = <<>>
    /\ printed = <<>>
    /\ convert = [kind |-> "off"]

\* Tile is not running
TileIdle ==
    /\ tile_words = <<>>
    /\ tile_exercises = <<>>
    /\ assumed_words = <<>>
    /\ tile_word = <<>>
    /\ tile_printed = <<>>
    /\ tile = [kind |-> "off"]

Init == SchedInit /\ ViewIdle /\ AlignIdle /\ TrainIdle /\ ConvertIdle
        /\ TileIdle

\* Utc::now() moves on, by a second, up to limit seconds
Tick(limit) ==
    /\ now.secs < limit
    /\ now' = DurAdd(now, Seconds(1))
    /\ ret' = NoCall
    /\ UNCHANGED <<seen_words, seen_exercises, last_update, nOps>>
    /\ UNCHANGED <<viewVars, alignVars, trainVars, convVars, tileVars>>

Touch(word, kind) ==
    [w \in DOMAIN last_update \cup {word} |->
        IF w = word THEN [at |-> now, op |-> kind] ELSE last_update[w]]

WithProficiency(word) ==
    /\ seen_words' = with_proficiency(seen_words, word, now)
    /\ last_update' = IF seen(seen_words, word) THEN last_update
                      ELSE Touch(word, "init")
    /\ ret' = [op |-> "with_proficiency", word |-> word, at |-> now,
               was_seen |-> seen(seen_words, word)]
    /\ nOps' = nOps + 1
    /\ UNCHANGED <<seen_exercises, now>>
    /\ UNCHANGED <<viewVars, alignVars, trainVars, convVars, tileVars>>

\* success on the handle with_proficiency returned
Success(word) ==
    /\ seen(seen_words, word)
    /\ seen_words' = [seen_words EXCEPT ![word] = success(@, now)]
    /\ last_update' = Touch(word, "success")
    /\ ret' = [op |-> "success", word |-> word, at |-> now,
               before |-> seen_words[word]]
    /\ nOps' = nOps + 1
    /\ UNCHANGED <<seen_exercises, now>>
    /\ UNCHANGED <<viewVars, alignVars, trainVars, convVars, tileVars>>

\* fail on the handle with_proficiency returned
Fail(word) ==
    /\ seen(seen_words, word)
    /\ seen_words' = [seen_words EXCEPT ![word] = fail(@, now)]
    /\ last_update' = Touch(word, "fail")
    /\ ret' = [op |-> "fail", word |-> word, at |-> now,
               before |-> seen_words[word]]
    /\ nOps' = nOps + 1
    /\ UNCHANGED <<seen_exercises, now>>
    /\ UNCHANGED <<viewVars, alignVars, trainVars, convVars, tileVars>>

\* next_word takes &self: the model is read, not written
NextWordCall(word_list) ==
    /\ ret' = [op |-> "next_word", word_list |-> word_list, at |-> now,
               before_words |-> seen_words,
               before_exercises |-> seen_exercises,
               result |-> next_word(seen_words, now, word_list)]
    /\ UNCHANGED <<seen_words, seen_exercises, now, last_update, nOps>>
    /\ UNCHANGED <<viewVars, alignVars, trainVars, convVars, tileVars>>

Next ==
    \/ Tick(MaxNow)
    \/ \E w \in Words : nOps < MaxOps /\ WithProficiency(w)
    \/ \E w \in Words : nOps < MaxOps /\ Success(w)
    \/ \E w \in Words : nOps < MaxOps /\ Fail(w)
    \/ \E wl \in WordLists : NextWordCall(wl)

Spec == Init /\ [][Next]_vars

---------------------------------------------------------------------------
(* ExerciseScore and the functions of UserModel over Exercises             *)
(* (model.rs 34-59, 143-241, 305-317).                                     *)

Contains(q, x) == \E i \in DOMAIN q : q[i] = x

\* entry().or_insert(): an entry already there is kept
mark_seen_KeepFirst(se, ex, at) ==
    [e \in DOMAIN se \cup {ex} |-> IF e \in DOMAIN se THEN se[e] ELSE at]

\* HashMap::insert: the entry of a key equal to exercise is replaced
mark_seen(se, ex, at) ==
    [e \in DOMAIN se \cup {ex} |-> IF e = ex THEN at ELSE se[e]]

score_exercise(sw, se, at, ex, word_list) ==
    LET exercise_words == words(ex)
        \* a HashSet: a word is in it once
        future_words ==
            {exercise_words[i] : i \in
                {j \in DOMAIN exercise_words :
                    /\ exercise_words[j] \in DOMAIN sw
                    /\ DurLess(at, sw[exercise_words[j]].target_date)}}
        \* iter().filter(..).count(): the positions that pass
        NotSeen == {i \in DOMAIN exercise_words :
                       exercise_words[i] \notin DOMAIN sw}
        InList == {i \in DOMAIN exercise_words :
                      /\ exercise_words[i] \notin future_words
                      /\ Contains(word_list, exercise_words[i])}
        NotInList == {i \in DOMAIN exercise_words :
                         /\ exercise_words[i] \notin future_words
                         /\ ~Contains(word_list, exercise_words[i])}
    IN  [words_not_in_list |-> Cardinality(NotInList),
         words_in_list |-> Cardinality(InList),
         words_not_seen |-> Cardinality(NotSeen),
         last_seen_date |-> IF ex \in DOMAIN se THEN Some(se[ex]) ELSE None,
         future_words_count |-> Cardinality(future_words)]

\* Option ordered with None after every Some
OptionLess_NoneLast(a, b) ==
    IF a.some THEN ~b.some \/ DurLess(a.val, b.val) ELSE FALSE

\* Ord of Option<DateTime<Utc>>: None is less than every Some
OptionLess(a, b) ==
    IF a.some THEN b.some /\ DurLess(a.val, b.val) ELSE b.some

\* the derived Ord of ExerciseScore: the fields in the order they are declared
ScoreLess(a, b) ==
    IF a.words_not_in_list # b.words_not_in_list
    THEN a.words_not_in_list < b.words_not_in_list
    ELSE IF a.words_in_list # b.words_in_list
    THEN a.words_in_list < b.words_in_list
    ELSE IF a.words_not_seen # b.words_not_seen
    THEN a.words_not_seen < b.words_not_seen
    ELSE IF a.last_seen_date # b.last_seen_date
    THEN OptionLess(a.last_seen_date, b.last_seen_date)
    ELSE a.future_words_count < b.future_words_count

\* as max_by_key breaks ties: the last of the least
RECURSIVE MinExercise_LastLeast(_, _, _, _, _, _, _)
MinExercise_LastLeast(sw, se, at, exs, word_list, i, best) ==
    IF i > Len(exs) THEN best
    ELSE IF ~ScoreLess(score_exercise(sw, se, at, exs[best], word_list),
                       score_exercise(sw, se, at, exs[i], word_list))
    THEN MinExercise_LastLeast(sw, se, at, exs, word_list, i + 1, i)
    ELSE MinExercise_LastLeast(sw, se, at, exs, word_list, i + 1, best)

\* min_by_key over the exercises from the ith on: the first of the least
RECURSIVE MinExercise(_, _, _, _, _, _, _)
MinExercise(sw, se, at, exs, word_list, i, best) ==
    IF i > Len(exs) THEN best
    ELSE IF ScoreLess(score_exercise(sw, se, at, exs[i], word_list),
                      score_exercise(sw, se, at, exs[best], word_list))
    THEN MinExercise(sw, se, at, exs, word_list, i + 1, i)
    ELSE MinExercise(sw, se, at, exs, word_list, i + 1, best)

\* next_exercise that takes the first Exercise with the target word
next_exercise_First(sw, se, at, exercises, word_list, target_word) ==
    LET HasTarget(ex) == Contains(words(ex), target_word)
        with_target == SelectSeq(exercises, HasTarget)
    IN  IF with_target = <<>> THEN None ELSE Some(with_target[1])

\* next_exercise without the filter on the target word
next_exercise_NoFilter(sw, se, at, exercises, word_list, target_word) ==
    IF exercises = <<>>
    THEN None
    ELSE Some(exercises[MinExercise(sw, se, at, exercises, word_list, 2, 1)])

next_exercise(sw, se, at, exercises, word_list, target_word) ==
    LET HasTarget(ex) == Contains(words(ex), target_word)
        with_target == SelectSeq(exercises, HasTarget)
    IN  IF with_target = <<>>
        THEN None
        ELSE Some(with_target[MinExercise(sw, se, at, with_target,
                                          word_list, 2, 1)])

\* status with a word due exactly at the time counted as known
status_KnownAtDue(sw, se, exercises, word_list, at) ==
    LET InListWord(ex) ==
            \E i \in DOMAIN words(ex) : Contains(word_list, words(ex)[i])
        AllSeen(ex) ==
            \A i \in DOMAIN words(ex) : words(ex)[i] \in DOMAIN sw
        unlocked_sentences_set ==
            {exercises[i] : i \in
                {j \in DOMAIN exercises :
                    InListWord(exercises[j]) /\ AllSeen(exercises[j])}}
        seen_sentences_set ==
            {ex \in unlocked_sentences_set : ex \in DOMAIN se}
    IN  [total_words |-> Len(word_list),
         known_words |->
            Cardinality({w \in DOMAIN sw :
                Contains(word_list, w) /\ DurLeq(at, sw[w].target_date)}),
         words_to_review |->
            Cardinality({w \in DOMAIN sw :
                Contains(word_list, w) /\ DurLess(sw[w].target_date, at)}),
         seen_sentences |-> Cardinality(seen_sentences_set),
         unlocked_sentences |-> Cardinality(unlocked_sentences_set)]

status(sw, se, exercises, word_list, at) ==
    LET InListWord(ex) ==
            \E i \in DOMAIN words(ex) : Contains(word_list, words(ex)[i])
        AllSeen(ex) ==
            \A i \in DOMAIN words(ex) : words(ex)[i] \in DOMAIN sw
        unlocked_sentences_set ==
            {exercises[i] : i \in
                {j \in DOMAIN exercises :
                    InListWord(exercises[j]) /\ AllSeen(exercises[j])}}
        seen_sentences_set ==
            {ex \in unlocked_sentences_set : ex \in DOMAIN se}
    IN  [total_words |-> Len(word_list),
         known_words |->
            Cardinality({w \in DOMAIN sw :
                Contains(word_list, w) /\ DurLess(at, sw[w].target_date)}),
         words_to_review |->
            Cardinality({w \in DOMAIN sw :
                Contains(word_list, w) /\ DurLeq(sw[w].target_date, at)}),
         seen_sentences |-> Cardinality(seen_sentences_set),
         unlocked_sentences |-> Cardinality(unlocked_sentences_set)]

---------------------------------------------------------------------------
(* One memory record followed through a longer run of updates.             *)

MemWord == "wo"

MemNext ==
    \/ Tick(MaxMemNow)
    \/ nOps < MaxMemOps /\ WithProficiency(MemWord)
    \/ nOps < MaxMemOps /\ Success(MemWord)
    \/ nOps < MaxMemOps /\ Fail(MemWord)

SpecMem == Init /\ [][MemNext]_vars

---------------------------------------------------------------------------
(* The views of one Exercise, for every Exercise of up to MaxSegs segments. *)

InitView ==
    SchedInit /\ ViewInit /\ AlignIdle /\ TrainIdle /\ ConvertIdle
        /\ TileIdle

ViewNext == WordsCall \/ ChineseCall \/ PinyinCall

SpecView == InitView /\ [][ViewNext]_vars

---------------------------------------------------------------------------
(* join_with on every input within the bounds.                             *)

InitAlign ==
    SchedInit /\ ViewIdle /\ AlignInit /\ TrainIdle /\ ConvertIdle
        /\ TileIdle

AlignNext ==
    \/ AlignStep("unaligned")
    \/ AlignStep("commit")
    \/ AlignStep("failed")
    \/ AlignStep("segmentation")
    \/ AlignStep("unwrap_none")
    \/ AlignReturn

SpecAlign == InitAlign /\ [][AlignNext]_vars

---------------------------------------------------------------------------
(* join_with on transcriptions whose tones are right, wrong or missing.    *)

TonePinyinTokens ==
    { <<"n", "i3">>, <<"n", "i">>, <<"h", "a3", "o">>, <<"h", "a4", "o">>,
      <<"h", "a", "o">>, <<".">> }

TonePinyinTexts ==
    {Flatten(ts) :
        ts \in UNION {[1..n -> TonePinyinTokens] : n \in 0..MaxPinyinTokens}}

\* the statements before the loop
ToneInit ==
    /\ orig_chinese \in ChineseTexts
    /\ orig_pinyin \in TonePinyinTexts
    /\ strict_segmentation \in BOOLEAN
    /\ lax_pinyin \in BOOLEAN
    /\ segments = <<>>
    /\ pinyin = Without(to_lowercase(orig_pinyin), "'")
    /\ chinese = StripSpaces(orig_chinese)
    /\ outcome = Running

InitTones ==
    SchedInit /\ ViewIdle /\ ToneInit /\ TrainIdle /\ ConvertIdle
        /\ TileIdle

SpecTones == InitTones /\ [][AlignNext]_vars

---------------------------------------------------------------------------
(* The model scored against a pool of Exercises: records are made and      *)
(* strengthened, Exercises are marked seen, and score_exercise,            *)
(* next_exercise and status are called on the model as it stands.          *)

PoolWords == {<<"WO">>, <<"SHI">>, <<"CHI">>}

SegWo == Segment(<<"WO">>, <<"w", "o3">>)

SegShi == Segment(<<"SHI">>, <<"s", "h", "i4">>)

SegChi == Segment(<<"CHI">>, <<"c", "h", "i1">>)

SegStop == Segment(<<".">>, <<>>)

ExWoShi == [segments |-> <<SegWo, SegShi, SegStop>>, english |-> "I am."]

\* the same words as ExWoShi in another Exercise
ExWoShiBare == [segments |-> <<SegWo, SegShi>>, english |-> "I am"]

\* a word in two segments that are not neighbours
ExWoChiWo == [segments |-> <<SegWo, SegChi, SegWo>>, english |-> "I eat, I"]

ExChi == [segments |-> <<SegChi, SegStop>>, english |-> "Eat."]

PoolExercises == {ExWoShi, ExWoShiBare, ExWoChiWo, ExChi}

Pools ==
    { <<>>,
      <<ExWoShi, ExWoShiBare>>,
      <<ExWoShiBare, ExWoShi>>,
      <<ExWoShi, ExWoChiWo, ExChi>>,
      <<ExChi, ExWoChiWo, ExWoShiBare, ExWoShi>>,
      <<ExWoShi, ExWoShi, ExChi>> }

ScoreLists ==
    { <<>>,
      << <<"WO">> >>,
      << <<"SHI">>, <<"WO">> >>,
      << <<"WO">>, <<"WO">>, <<"CHI">> >> }

\* model.with_proficiency(&word, now).success(now)
Practise(word) ==
    /\ seen_words' = [with_proficiency(seen_words, word, now)
                         EXCEPT ![word] = success(@, now)]
    /\ last_update' = Touch(word, "success")
    /\ ret' = [op |-> "success", word |-> word, at |-> now,
               before |-> with_proficiency(seen_words, word, now)[word]]
    /\ nOps' = nOps + 1
    /\ UNCHANGED <<seen_exercises, now>>
    /\ UNCHANGED <<viewVars, alignVars, trainVars, convVars, tileVars>>

\* the model as an update or the clock left it; score_exercise,
\* next_exercise and status leave the model as it is, so a call made after
\* one of them reaches no state that a call made before it does not reach
Settled == ret.op \notin {"score_exercise", "next_exercise", "status"}

MarkSeen(ex) ==
    /\ seen_exercises' = mark_seen(seen_exercises, ex, now)
    /\ ret' = [op |-> "mark_seen", exercise |-> ex, at |-> now,
               before_words |-> seen_words,
               before_exercises |-> seen_exercises]
    /\ nOps' = nOps + 1
    /\ UNCHANGED <<seen_words, now, last_update>>
    /\ UNCHANGED <<viewVars, alignVars, trainVars, convVars, tileVars>>

\* score_exercise takes &self
ScoreCall(ex, word_list) ==
    /\ Settled
    /\ ret' = [op |-> "score_exercise", exercise |-> ex,
               word_list |-> word_list, at |-> now,
               result |-> score_exercise(seen_words, seen_exercises, now,
                                         ex, word_list)]
    /\ UNCHANGED <<seen_words, seen_exercises, now, last_update, nOps>>
    /\ UNCHANGED <<viewVars, alignVars, trainVars, convVars, tileVars>>

\* next_exercise takes &self
NextExerciseCall(exercises, word_list, target_word) ==
    /\ Settled
    /\ ret' = [op |-> "next_exercise", exercises |-> exercises,
               word_list |-> word_list, target_word |-> target_word,
               at |-> now,
               result |-> next_exercise(seen_words, seen_exercises, now,
                                        exercises, word_list, target_word)]
    /\ UNCHANGED <<seen_words, seen_exercises, now, last_update, nOps>>
    /\ UNCHANGED <<viewVars, alignVars, trainVars, convVars, tileVars>>

\* status takes &self
StatusCall(exercises, word_list) ==
    /\ Settled
    /\ ret' = [op |-> "status", exercises |-> exercises,
               word_list |-> word_list, at |-> now,
               result |-> status(seen_words, seen_exercises, exercises,
                                 word_list, now)]
    /\ UNCHANGED <<seen_words, seen_exercises, now, last_update, nOps>>
    /\ UNCHANGED <<viewVars, alignVars, trainVars, convVars, tileVars>>

ScoreNext ==
    \/ Tick(MaxNow)
    \/ \E w \in PoolWords : nOps < MaxScoreOps /\ WithProficiency(w)
    \/ \E w \in PoolWords : nOps < MaxScoreOps /\ Practise(w)
    \/ \E ex \in PoolExercises : nOps < MaxScoreOps /\ MarkSeen(ex)
    \/ \E ex \in PoolExercises, wl \in ScoreLists : ScoreCall(ex, wl)
    \/ \E exs \in Pools, wl \in ScoreLists, w \in PoolWords :
          NextExerciseCall(exs, wl, w)
    \/ \E exs \in Pools, wl \in ScoreLists : StatusCall(exs, wl)

SpecScore == Init /\ [][ScoreNext]_vars

---------------------------------------------------------------------------
(* next_exercise on pools where Exercises score alike: the two Exercises   *)
(* of the same words, in both orders, with and without a third.            *)

OrderPools ==
    { <<ExWoShi, ExWoShiBare>>,
      <<ExWoShiBare, ExWoShi>>,
      <<ExWoChiWo, ExWoShiBare, ExWoShi>>,
      <<ExChi, ExWoShi, ExWoShi>> }

OrderLists == { <<>>, << <<"SHI">>, <<"WO">> >> }

OrderNext ==
    \/ Tick(MaxNow)
    \/ \E w \in PoolWords : nOps < MaxScoreOps /\ WithProficiency(w)
    \/ \E w \in PoolWords : nOps < MaxScoreOps /\ Practise(w)
    \/ \E ex \in PoolExercises : nOps < MaxScoreOps /\ MarkSeen(ex)
    \/ \E exs \in OrderPools, wl \in OrderLists, w \in PoolWords :
          NextExerciseCall(exs, wl, w)

SpecOrder == Init /\ [][OrderNext]_vars

---------------------------------------------------------------------------
(* The training session (train.rs 26-187).  The terminal, the audio sink,  *)
(* App.history and App.exercise_score are written but never read by the    *)
(* steps below; they are left out.                                         *)

\* the two sides of the comparison of an answer: lower case, no whitespace
Normal(text) == Without(to_lowercase(text), " ")

Persisted(sw, se) == [seen_words |-> sw, seen_exercises |-> se]

\* a review that updates a Proficiency that is there and makes none
Review_NeverCreates(sw, word, hint, at) ==
    IF word \in DOMAIN sw
    THEN [sw EXCEPT ![word] = IF hint THEN fail(@, at) ELSE success(@, at)]
    ELSE sw

\* a review that is a success whatever show_hint says
Review_HintIgnored(sw, word, hint, at) ==
    [with_proficiency(sw, word, at) EXCEPT ![word] = success(@, at)]

\* with_proficiency(..).fail(now) or .success(now), by show_hint
Review(sw, word, hint, at) ==
    [with_proficiency(sw, word, at) EXCEPT
        ![word] = IF hint THEN fail(@, at) ELSE success(@, at)]

\* the while loop of run_app: the segments from App.index on that the input
\* answers.  a is the App as far as the loop reads and writes it, with the
\* updates made so far and the file as store() left it.
RECURSIVE Answer(_, _, _)
Answer(ex, a, at) ==
    IF a.index < Len(ex.segments)
          /\ Normal(ex.segments[a.index + 1].pinyin) = Normal(a.input)
    THEN LET target == ex.segments[a.index + 1]
             answered == target.pinyin # <<>>
             sw == IF answered
                   THEN Review(a.seen_words, target.chinese, a.show_hint, at)
                   ELSE a.seen_words
         IN  Answer(ex,
                    [index |-> a.index + 1,
                     input |-> <<>>,
                     show_hint |-> FALSE,
                     seen_words |-> sw,
                     stored |-> IF answered
                                THEN Persisted(sw, a.seen_exercises)
                                ELSE a.stored,
                     seen_exercises |-> a.seen_exercises,
                     updates |-> IF answered
                                 THEN Append(a.updates,
                                        [word |-> target.chinese,
                                         kind |-> IF a.show_hint THEN "fail"
                                                  ELSE "success"])
                                 ELSE a.updates],
                    at)
    ELSE a

RECURSIVE TouchAll(_, _, _)
TouchAll(lu, updates, at) ==
    IF updates = <<>> THEN lu
    ELSE TouchAll([w \in DOMAIN lu \cup {Head(updates).word} |->
                      IF w = Head(updates).word
                      THEN [at |-> at, op |-> Head(updates).kind]
                      ELSE lu[w]],
                  Tail(updates), at)

TrainLists ==
    { <<>>,
      << <<"CHI">> >>,
      << <<"CHI">>, <<"WO">> >>,
      << <<"WO">>, <<"CHI">> >> }

\* the Exercises as train() hands them to App::new, reversed
TrainPools ==
    { <<>>,
      <<ExChi>>,
      <<ExWoShi, ExChi>>,
      <<ExChi, ExWoChiWo>> }

\* what the input line holds after a key: a reading, or something else
TrainInputs ==
    { <<"w", "o3">>, <<"s", "h", "i4">>, <<"c", "h", "i1">>, <<"x">> }

Keys ==
    {[key |-> "ctrl_c"], [key |-> "esc"]}
        \cup {[key |-> "char", text |-> t] : t \in TrainInputs}

\* train() is called: nothing stored yet, UserModel::load() finds no file
TrainInit ==
    /\ app_word_list \in TrainLists
    /\ app_exercises \in TrainPools
    /\ app_target_word = <<>>
    /\ app_exercise = NoExercise
    /\ app_index = 0
    /\ app_input = <<>>
    /\ app_show_hint = FALSE
    /\ stored = Persisted(NoWords, <<>>)
    /\ session = "start"

\* App::new
AppNew ==
    /\ session = "start"
    /\ LET word == next_word(stored.seen_words, now, app_word_list)
           ex == next_exercise(stored.seen_words, stored.seen_exercises, now,
                               app_exercises, app_word_list, word.val)
       IN  /\ seen_words' = stored.seen_words
           /\ seen_exercises' = stored.seen_exercises
           /\ IF ~word.ok
              THEN /\ session' = "panicked"
                   /\ ret' = [op |-> "new", panic |-> word.msg]
                   /\ UNCHANGED <<app_target_word, app_exercise>>
              ELSE IF ~ex.some
              THEN /\ session' = "panicked"
                   /\ ret' = [op |-> "new",
                              panic |-> "called Option::unwrap() on a None value"]
                   /\ UNCHANGED <<app_target_word, app_exercise>>
              ELSE /\ session' = "running"
                   /\ ret' = [op |-> "new", panic |-> ""]
                   /\ app_target_word' = word.val
                   /\ app_exercise' = ex.val
    /\ UNCHANGED <<app_word_list, app_exercises, app_index, app_input,
                   app_show_hint, stored>>
    /\ UNCHANGED <<now, last_update, nOps>>
    /\ UNCHANGED <<viewVars, alignVars, convVars, tileVars>>

\* a turn that takes the Exercise for completed once a segment is answered
KeyEvent_SelectsMidExercise(k) ==
    /\ session = "running"
    /\ nOps < MaxTrainEvents
    /\ nOps' = nOps + 1
    /\ IF k.key = "ctrl_c"
       THEN /\ session' = "exited"
            /\ ret' = [op |-> "key", key |-> k, updates |-> <<>>,
                       index |-> app_index, completed |-> FALSE,
                       panic |-> ""]
            /\ UNCHANGED <<seen_words, seen_exercises, last_update, stored,
                           app_target_word, app_exercise, app_index,
                           app_input, app_show_hint>>
       ELSE LET a == Answer(app_exercise,
                            [index |-> app_index,
                             input |-> IF k.key = "char" THEN k.text
                                       ELSE app_input,
                             show_hint |-> app_show_hint \/ k.key = "esc",
                             seen_words |-> seen_words,
                             stored |-> stored,
                             seen_exercises |-> seen_exercises,
                             updates |-> <<>>],
                            now)
                completed == a.index > app_index
                se == IF completed
                      THEN mark_seen(seen_exercises, app_exercise, now)
                      ELSE seen_exercises
                word == next_word(a.seen_words, now, app_word_list)
                ex == next_exercise(a.seen_words, se, now, app_exercises,
                                    app_word_list, word.val)
                panic == IF ~completed THEN ""
                         ELSE IF ~word.ok THEN word.msg
                         ELSE IF ~ex.some
                         THEN "called Option::unwrap() on a None value"
                         ELSE ""
            IN  /\ seen_words' = a.seen_words
                /\ seen_exercises' = se
                /\ stored' = a.stored
                /\ last_update' = TouchAll(last_update, a.updates, now)
                /\ app_input' = a.input
                /\ app_show_hint' = a.show_hint
                /\ ret' = [op |-> "key", key |-> k, updates |-> a.updates,
                           index |-> a.index, completed |-> completed,
                           panic |-> panic]
                /\ session' = IF panic = "" THEN "running" ELSE "panicked"
                /\ app_target_word' = IF completed /\ word.ok THEN word.val
                                      ELSE app_target_word
                /\ app_exercise' = IF completed /\ panic = "" THEN ex.val
                                   ELSE app_exercise
                /\ app_index' = IF completed /\ panic = "" THEN 0
                                ELSE a.index
    /\ UNCHANGED <<app_word_list, app_exercises, now>>
    /\ UNCHANGED <<viewVars, alignVars, convVars, tileVars>>

\* one turn of the loop of run_app: a key is read and handled
KeyTurn(k) ==
    /\ session = "running"
    /\ IF k.key = "ctrl_c"
       THEN /\ session' = "exited"
            /\ ret' = [op |-> "key", key |-> k, updates |-> <<>>,
                       index |-> app_index, completed |-> FALSE,
                       panic |-> ""]
            /\ UNCHANGED <<seen_words, seen_exercises, last_update, stored,
                           app_target_word, app_exercise, app_index,
                           app_input, app_show_hint>>
       ELSE LET a == Answer(app_exercise,
                            [index |-> app_index,
                             input |-> IF k.key = "char" THEN k.text
                                       ELSE app_input,
                             show_hint |-> app_show_hint \/ k.key = "esc",
                             seen_words |-> seen_words,
                             stored |-> stored,
                             seen_exercises |-> seen_exercises,
                             updates |-> <<>>],
                            now)
                completed == a.index >= Len(app_exercise.segments)
                se == IF completed
                      THEN mark_seen(seen_exercises, app_exercise, now)
                      ELSE seen_exercises
                word == next_word(a.seen_words, now, app_word_list)
                ex == next_exercise(a.seen_words, se, now, app_exercises,
                                    app_word_list, word.val)
                panic == IF ~completed THEN ""
                         ELSE IF ~word.ok THEN word.msg
                         ELSE IF ~ex.some
                         THEN "called Option::unwrap() on a None value"
                         ELSE ""
            IN  /\ seen_words' = a.seen_words
                /\ seen_exercises' = se
                /\ stored' = a.stored
                /\ last_update' = TouchAll(last_update, a.updates, now)
                /\ app_input' = a.input
                /\ app_show_hint' = a.show_hint
                /\ ret' = [op |-> "key", key |-> k, updates |-> a.updates,
                           index |-> a.index, completed |-> completed,
                           panic |-> panic]
                /\ session' = IF panic = "" THEN "running" ELSE "panicked"
                /\ app_target_word' = IF completed /\ word.ok THEN word.val
                                      ELSE app_target_word
                /\ app_exercise' = IF completed /\ panic = "" THEN ex.val
                                   ELSE app_exercise
                /\ app_index' = IF completed /\ panic = "" THEN 0
                                ELSE a.index
    /\ UNCHANGED <<app_word_list, app_exercises, now>>
    /\ UNCHANGED <<viewVars, alignVars, convVars, tileVars>>

\* a turn of the loop, of the MaxTrainEvents that are followed
KeyEvent(k) ==
    /\ nOps < MaxTrainEvents
    /\ nOps' = nOps + 1
    /\ KeyTurn(k)

InitTrain ==
    SchedInit /\ ViewIdle /\ AlignIdle /\ TrainInit /\ ConvertIdle
        /\ TileIdle

\* Utc::now() moves on while the session waits for a key
TrainTick ==
    /\ session = "running"
    /\ now.secs < MaxNow
    /\ now' = DurAdd(now, Seconds(1))
    /\ UNCHANGED <<seen_words, seen_exercises, ret, last_update, nOps>>
    /\ UNCHANGED <<viewVars, alignVars, trainVars, convVars, tileVars>>

TrainNext ==
    \/ AppNew
    \/ \E k \in Keys : KeyEvent(k)
    \/ TrainTick

SpecTrain == InitTrain /\ [][TrainNext]_vars

---------------------------------------------------------------------------
(* A training session without end.  The session reads the clock only to   *)
(* compare it with dates and to add durations to it, so a run and the same *)
(* run shifted in time are one run: here the clock stays at Zero and every *)
(* date moves into the past while the session waits for a key.  A date     *)
(* more than MaxOverdue seconds in the past is kept at MaxOverdue seconds  *)
(* in the past; the waits that are followed leave at most one word of the  *)
(* list and one Exercise that far back, so that every comparison of two    *)
(* dates comes out as it does on the dates themselves.  The learner that   *)
(* is followed has the hint shown before every answer and waits MaxWait    *)
(* seconds at a time.                                                      *)

MaxOverdue == 8
MaxWait == 6

\* the date t read d later
Earlier(t, d) ==
    IF DurLess(DurSub(t, d), Seconds(0 - MaxOverdue))
    THEN Seconds(0 - MaxOverdue)
    ELSE DurSub(t, d)

WordsEarlier(sw, d) ==
    [w \in DOMAIN sw |-> [sw[w] EXCEPT !.target_date = Earlier(@, d)]]

ExercisesEarlier(se, d) == [ex \in DOMAIN se |-> Earlier(se[ex], d)]

\* at most one word of the list and one Exercise are MaxOverdue in the past
OneFarBack(sw, se) ==
    /\ Cardinality({w \in DOMAIN sw :
           /\ Contains(app_word_list, w)
           /\ sw[w].target_date = Seconds(0 - MaxOverdue)}) <= 1
    /\ Cardinality({ex \in DOMAIN se :
           se[ex] = Seconds(0 - MaxOverdue)}) <= 1

LiveLists == { << <<"WO">>, <<"CHI">> >>, << <<"CHI">>, <<"WO">> >> }

LivePools == { <<ExWoShi, ExChi>>, <<ExChi, ExWoChiWo>> }

LiveInit ==
    /\ TrainInit
    /\ app_word_list \in LiveLists
    /\ app_exercises \in LivePools

\* the session waits d seconds for the next key
LiveWait(d) ==
    /\ session = "running"
    /\ OneFarBack(WordsEarlier(seen_words, Seconds(d)),
                  ExercisesEarlier(seen_exercises, Seconds(d)))
    /\ seen_words' = WordsEarlier(seen_words, Seconds(d))
    /\ seen_exercises' = ExercisesEarlier(seen_exercises, Seconds(d))
    /\ stored' = Persisted(WordsEarlier(stored.seen_words, Seconds(d)),
                           ExercisesEarlier(stored.seen_exercises,
                                            Seconds(d)))
    /\ last_update' = [w \in DOMAIN last_update |->
                          [last_update[w] EXCEPT !.at = Earlier(@, Seconds(d))]]
    /\ ret' = [op |-> "wait", secs |-> d]
    /\ UNCHANGED <<now, nOps>>
    /\ UNCHANGED <<app_word_list, app_exercises, app_target_word,
                   app_exercise, app_index, app_input, app_show_hint,
                   session>>
    /\ UNCHANGED <<viewVars, alignVars, convVars, tileVars>>

\* a turn of the loop of run_app, among those that are followed
LiveKey(k) ==
    /\ KeyTurn(k)
    /\ \A n \in DOMAIN ret'.updates : ret'.updates[n].kind = "fail"
    /\ UNCHANGED nOps

InitLive ==
    SchedInit /\ ViewIdle /\ AlignIdle /\ LiveInit /\ ConvertIdle
        /\ TileIdle

LiveNext ==
    \/ AppNew
    \/ \E k \in Keys : LiveKey(k)
    \/ LiveWait(MaxWait)

\* run_app handles every key it reads, for as long as keys come
SpecLive ==
    InitLive /\ [][LiveNext]_vars /\ WF_vars(\E k \in Keys : LiveKey(k))

---------------------------------------------------------------------------
(* Exercise::parse (convert.rs 11-37) and the command Convert (main.rs     *)
(* 90-107).  A file is a sequence of lines; a line is what split_once(':') *)
(* makes of it: a key and a value, or no colon at all.                     *)

MaxLines == 4

KeyLine(k, v) == [colon |-> TRUE, key |-> k, value |-> v]

TextLine(v) == [colon |-> FALSE, key |-> "", value |-> v]

BlankLine == TextLine(<<>>)

\* the lines a file is made of
Lines ==
    { KeyLine("Chinese", <<" ", "NI">>),
      KeyLine("Pinyin", <<" ", "N", "i3">>),
      KeyLine("English", <<" ", "Y", "o", "u", " ">>),
      KeyLine("Notes", <<" ", "x">>),
      TextLine(<<"x">>),
      BlankLine }

Files == UNION {[1..n -> Lines] : n \in 0..MaxLines}

\* str::trim on a value
trim(text) == Reverse(trim_start(Reverse(trim_start(text))))

\* a line of whitespace only
IsBlank(line) == ~line.colon /\ trim(line.value) = <<>>

RECURSIVE trim_lines_start(_)
trim_lines_start(input) ==
    IF input # <<>> /\ IsBlank(Head(input))
    THEN trim_lines_start(Tail(input))
    ELSE input

\* str::trim on the text of a file: the blank lines at its ends go
trim_lines(input) ==
    Reverse(trim_lines_start(Reverse(trim_lines_start(input))))

NoRecord == [kind |-> "none"]

Converting == [kind |-> "running"]

\* Some((Exercise { segments, english }, input)), or the panic of join_with
parsed(j, english, input) ==
    IF j.kind = "panic" THEN j
    ELSE [kind |-> "some",
          exercise |-> [segments |-> j.segments, english |-> english],
          rest |-> input]

\* parse that takes the keys only as Chinese, Pinyin, English
parse_InOrder(input, strict_segmentation_, lax_pinyin_) ==
    LET t == trim_lines(input)
    IN  IF /\ Len(t) >= 3
           /\ \A i \in 1..3 : t[i].colon
           /\ <<t[1].key, t[2].key, t[3].key>> =
                  <<"Chinese", "Pinyin", "English">>
        THEN parsed(join_with(trim(t[1].value), trim(t[2].value),
                              strict_segmentation_, lax_pinyin_),
                    trim(t[3].value), Drop(t, 3))
        ELSE NoRecord

\* Exercise::parse: None, Some((exercise, rest)), or the panic of join_with
parse(input, strict_segmentation_, lax_pinyin_) ==
    LET t == trim_lines(input)
        \* split_once('\n').unwrap_or((input, "")): past the end, ""
        line(i) == IF i <= Len(t) THEN t[i] ELSE BlankLine
        Known == {"Chinese", "Pinyin", "English"}
        \* the value a key was given last, trimmed
        Given(key) ==
            LET I == {i \in 1..3 : line(i).key = key}
            IN  IF I = {} THEN None
                ELSE Some(trim(line(CHOOSE i \in I :
                                        \A k \in I : k <= i).value))
    IN  IF \E i \in 1..3 : ~line(i).colon \/ line(i).key \notin Known
        THEN NoRecord
        ELSE IF \E key \in Known : ~Given(key).some
        THEN NoRecord
        ELSE parsed(join_with(Given("Chinese").val, Given("Pinyin").val,
                              strict_segmentation_, lax_pinyin_),
                    Given("English").val, Drop(t, 3))

\* Convert starts on a file
ConvertInit ==
    /\ lax_segmentation \in BOOLEAN
    /\ strict_pinyin \in BOOLEAN
    /\ rest \in Files
    /\ printed = <<>>
    /\ convert = Converting

\* the body of the while loop on what parse gave
ConvertOn(r, kind) ==
    /\ r.kind = kind
    /\ ret' = [op |-> "parse", input |-> rest, printed |-> printed,
               result |-> r]
    /\ rest' = IF kind = "some" THEN r.rest ELSE rest
    /\ printed' = IF kind = "some" THEN Append(printed, r.exercise)
                  ELSE printed
    /\ convert' = IF kind = "some" THEN convert
                  ELSE IF kind = "panic" THEN r
                  ELSE [kind |-> "panic", msg |-> "Failed to parse at",
                        at |-> trim_lines(rest)]

\* a turn of the while loop whose parse ends as kind says
ConvertStep(kind) ==
    /\ convert = Converting
    /\ trim_lines(rest) # <<>>
    /\ ConvertOn(parse(rest, ~lax_segmentation, ~strict_pinyin), kind)
    /\ UNCHANGED <<lax_segmentation, strict_pinyin>>
    /\ UNCHANGED <<seen_words, seen_exercises, now, last_update, nOps>>
    /\ UNCHANGED <<viewVars, alignVars, trainVars, tileVars>>

\* the while loop ends: nothing but whitespace is left
ConvertDone ==
    /\ convert = Converting
    /\ trim_lines(rest) = <<>>
    /\ convert' = [kind |-> "done"]
    /\ UNCHANGED <<lax_segmentation, strict_pinyin, rest, printed>>
    /\ UNCHANGED <<schedVars, viewVars, alignVars, trainVars, tileVars>>

InitConvert ==
    SchedInit /\ ViewIdle /\ AlignIdle /\ TrainIdle /\ ConvertInit
        /\ TileIdle

ConvertNext ==
    \/ ConvertStep("some")
    \/ ConvertStep("none")
    \/ ConvertStep("panic")
    \/ ConvertDone

SpecConvert == InitConvert /\ [][ConvertNext]_vars

---------------------------------------------------------------------------
(* Tile (main.rs 165-262): the words of the list in the order a learner    *)
(* with no time passing would meet them, each with its Exercise.           *)

\* model.with_proficiency(&word, now).success(now)
learn(sw, word, at) ==
    [with_proficiency(sw, word, at) EXCEPT ![word] = success(@, at)]

\* for word in exercise.words() { .. }
RECURSIVE learn_all(_, _, _)
learn_all(sw, ws, at) ==
    IF ws = <<>> THEN sw
    ELSE learn_all(learn(sw, Head(ws), at), Tail(ws), at)

\* what a turn of the loop leaves: st is "break", "select" or the panic
TileResult(st, sw, se, word, out) ==
    [step |-> st, seen_words |-> sw, seen_exercises |-> se, word |-> word,
     out |-> out]

\* the turn from the unwrap of next_exercise on: alt_model is the model
TileExercise(sw, se, at, word, ex) ==
    IF ~ex.some
    THEN TileResult("unwrap_none", sw, se, word, <<>>)
    ELSE TileResult("select",
                    learn_all(sw, words(ex.val), at),
                    mark_seen(se, ex.val, at),
                    word,
                    <<[word |-> word, exercise |-> ex.val]>>)

\* a turn without the test model.seen(&word)
TileWord_NeverSeen(sw, se, at, ws, exs, word) ==
    TileExercise(learn(sw, word, at), se, at, word,
                 next_exercise(learn(sw, word, at), se, at, exs, ws, word))

\* the turn from the test model.seen(&word) on
TileWord(sw, se, at, ws, exs, word) ==
    IF seen(sw, word)
    THEN TileResult("break", sw, se, word, <<>>)
    ELSE TileExercise(learn(sw, word, at), se, at, word,
                      next_exercise(learn(sw, word, at), se, at, exs, ws,
                                    word))

\* the turn from the result w of next_word on
TileChosen(sw, se, at, ws, exs, w) ==
    IF ~w.ok
    THEN TileResult("expect", sw, se, <<>>, <<>>)
    ELSE TileWord(sw, se, at, ws, exs, w.val)

\* one turn of the loop
TileLoop(sw, se, at, ws, exs) ==
    TileChosen(sw, se, at, ws, exs, next_word(sw, at, ws))

\* the word lists as load_words (and the sort) leave them
TileLists ==
    { <<>>,
      << <<"WO">> >>,
      << <<"WO">>, <<"WO">> >>,
      << <<"WO">>, <<"SHI">> >>,
      << <<"CHI">>, <<"WO">> >>,
      << <<"SHI">>, <<"WO">>, <<"CHI">> >>,
      << <<"CHI">>, <<"SHI">>, <<"WO">> >> }

TilePools ==
    { <<>>,
      <<ExWoShiBare>>,
      <<ExWoShi, ExChi>>,
      <<ExChi, ExWoChiWo>>,
      <<ExChi, ExWoShi, ExWoChiWo>> }

TileAssumed == { <<>>, << <<"SHI">> >>, << <<"WO">>, <<"CHI">> >> }

TileInit ==
    /\ tile_words \in TileLists
    /\ tile_exercises \in TilePools
    /\ assumed_words \in TileAssumed
    /\ tile_word = <<>>
    /\ tile_printed = <<>>
    /\ tile = [kind |-> "start"]

\* the clock before Tile reads it
TileClock ==
    /\ tile = [kind |-> "start"]
    /\ Tick(MaxNow)

\* let mut model = UserModel::new(); let now = Utc::now();
TileNow ==
    /\ tile = [kind |-> "start"]
    /\ tile' = [kind |-> "running"]
    /\ ret' = [op |-> "tile", step |-> "now"]
    /\ UNCHANGED <<seen_words, seen_exercises, now, last_update, nOps>>
    /\ UNCHANGED <<tile_words, tile_exercises, assumed_words, tile_word,
                   tile_printed>>
    /\ UNCHANGED <<viewVars, alignVars, trainVars, convVars>>

\* a turn of the for loop over assumed_words
TileAssume ==
    /\ tile = [kind |-> "running"]
    /\ assumed_words # <<>>
    /\ seen_words' = learn(seen_words, Head(assumed_words), now)
    /\ last_update' = Touch(Head(assumed_words), "success")
    /\ assumed_words' = Tail(assumed_words)
    /\ ret' = [op |-> "tile", step |-> "assume"]
    /\ UNCHANGED <<seen_exercises, now, nOps>>
    /\ UNCHANGED <<tile_words, tile_exercises, tile_word, tile_printed, tile>>
    /\ UNCHANGED <<viewVars, alignVars, trainVars, convVars>>

\* the state after a turn r of the loop
TileOn(r) ==
    /\ seen_words' = r.seen_words
    /\ seen_exercises' = r.seen_exercises
    /\ last_update' =
           [w \in DOMAIN r.seen_words |->
               IF w \in DOMAIN seen_words /\ r.seen_words[w] = seen_words[w]
               THEN last_update[w]
               ELSE [at |-> now, op |-> "success"]]
    /\ tile_word' = r.word
    /\ tile_printed' = tile_printed \o r.out
    /\ tile' = IF r.step = "select" THEN tile
               ELSE IF r.step = "break" THEN [kind |-> "done"]
               ELSE IF r.step = "expect"
               THEN [kind |-> "panic", msg |-> "word_list must not be empty"]
               ELSE [kind |-> "panic",
                     msg |-> "called Option::unwrap() on a None value"]
    /\ ret' = [op |-> "tile", step |-> r.step]

\* a turn of the loop, to its end, its break or its panic
TileTurn ==
    /\ tile = [kind |-> "running"]
    /\ assumed_words = <<>>
    /\ TileOn(TileLoop(seen_words, seen_exercises, now, tile_words,
                       tile_exercises))
    /\ UNCHANGED <<now, nOps>>
    /\ UNCHANGED <<tile_words, tile_exercises, assumed_words>>
    /\ UNCHANGED <<viewVars, alignVars, trainVars, convVars>>

InitTile ==
    SchedInit /\ ViewIdle /\ AlignIdle /\ TrainIdle /\ ConvertIdle
        /\ TileInit

TileNext ==
    \/ TileClock
    \/ TileNow
    \/ TileAssume
    \/ TileTurn

SpecTile == InitTile /\ [][TileNext]_vars

---------------------------------------------------------------------------
(* Properties of join_with.                                                *)

RECURSIVE ConcatChinese(_)
ConcatChinese(segs) ==
    IF segs = <<>> THEN <<>>
    ELSE Head(segs).chinese \o ConcatChinese(Tail(segs))

NotSpace(c) == c # " "

\* C1: when join_with returns, the Chinese texts of its segments, put
\* together in order, are the Chinese text it was given with the spaces
\* taken out; and at every turn of its loop the segments so far followed by
\* the text still to be read are that text.
C1_SegmentsConcatIsChineseWithoutSpaces ==
    /\ outcome.kind = "ok" =>
          ConcatChinese(segments) = SelectSeq(orig_chinese, NotSpace)
    /\ outcome.kind = "running" =>
          ConcatChinese(segments) \o chinese
              = SelectSeq(orig_chinese, NotSpace)

\* join_with returned an aligned word for a text that had a space in it
C1_Witness ==
    /\ outcome.kind = "ok"
    /\ \E i \in DOMAIN orig_chinese : orig_chinese[i] = " "
    /\ \E j \in DOMAIN segments : segments[j].pinyin # <<>>

---------------------------------------------------------------------------
(* Properties of next_word.  Each is about the state right after a call:   *)
(* ret holds the arguments, the model as the call found it, the result.    *)

ListWords(wl) == {wl[i] : i \in DOMAIN wl}

IsDue(sw, at, w) == w \in DOMAIN sw /\ ~DurLess(at, sw[w].target_date)

IsUnseen(sw, w) == w \notin DOMAIN sw

IsFuture(sw, at, w) == w \in DOMAIN sw /\ DurLess(at, sw[w].target_date)

\* how long ago w became due
OverdueGap(sw, at, w) == DurSub(at, sw[w].target_date)

\* how long until w is due
TimeToDue(sw, at, w) == DurSub(sw[w].target_date, at)

AfterNextWord == ret.op = "next_word" /\ ret.word_list # <<>>

\* C3: next_word picks by tier.  If a word of the list is due the result is
\* a due word; otherwise, if a word of the list was never seen the result is
\* an unseen word; a word not yet due is returned only when every word of
\* the list is seen and not yet due.
C3_NextWordPicksByTier ==
    AfterNextWord =>
        LET sw == ret.before_words
            at == ret.at
            L  == ListWords(ret.word_list)
            r  == ret.result.val
            anyDue    == \E w \in L : IsDue(sw, at, w)
            anyUnseen == \E w \in L : IsUnseen(sw, w)
        IN  /\ ret.result.ok
            /\ r \in L
            /\ anyDue => IsDue(sw, at, r)
            /\ (~anyDue /\ anyUnseen) => IsUnseen(sw, r)
            /\ IsFuture(sw, at, r) => \A w \in L : IsFuture(sw, at, w)

\* a call whose list starts with an unseen word and goes on with a due one
C3_Witness ==
    /\ AfterNextWord
    /\ Len(ret.word_list) >= 2
    /\ IsUnseen(ret.before_words, ret.word_list[1])
    /\ IsDue(ret.before_words, ret.at, ret.word_list[2])
    /\ ret.result.val = ret.word_list[2]

\* C4: among several due words next_word returns one whose overdue gap
\* |dueAt - now| is the smallest; a word with dueAt = now is due, with gap 0.
C4_NextWordSmallestOverdueGap ==
    AfterNextWord =>
        LET sw == ret.before_words
            at == ret.at
            L  == ListWords(ret.word_list)
            r  == ret.result.val
        IN  \A w \in L :
                IsDue(sw, at, w) =>
                    /\ r \in DOMAIN sw
                    /\ DurLeq(sw[r].target_date, at)
                    /\ DurLeq(OverdueGap(sw, at, r), OverdueGap(sw, at, w))

\* two due words, the first overdue, the second due right now: the second
C4_Witness ==
    /\ AfterNextWord
    /\ Len(ret.word_list) >= 2
    /\ IsDue(ret.before_words, ret.at, ret.word_list[1])
    /\ ret.word_list[2] \in DOMAIN ret.before_words
    /\ ret.before_words[ret.word_list[2]].target_date = ret.at
    /\ DurLess(Zero, OverdueGap(ret.before_words, ret.at, ret.word_list[1]))
    /\ ret.result.val = ret.word_list[2]

\* C5: with no due word in the list, next_word returns the unseen word at
\* the smallest position (the first word of the list on an empty model);
\* with no due and no unseen word it returns a word with the smallest
\* dueAt - now.
C5_NextWordFirstUnseenThenSoonest ==
    AfterNextWord =>
        LET sw == ret.before_words
            at == ret.at
            wl == ret.word_list
            L  == ListWords(wl)
            r  == ret.result.val
            anyDue    == \E w \in L : IsDue(sw, at, w)
            anyUnseen == \E w \in L : IsUnseen(sw, w)
        IN  /\ (~anyDue /\ anyUnseen) =>
                \E k \in DOMAIN wl :
                    /\ IsUnseen(sw, wl[k])
                    /\ \A j \in 1..(k - 1) : ~IsUnseen(sw, wl[j])
                    /\ r = wl[k]
            /\ sw = NoWords => r = wl[1]
            /\ (~anyDue /\ ~anyUnseen) =>
                /\ IsFuture(sw, at, r)
                /\ \A w \in L :
                      DurLeq(TimeToDue(sw, at, r), TimeToDue(sw, at, w))

\* two words not yet due, the second due sooner than the first: the second
C5_Witness ==
    /\ AfterNextWord
    /\ Len(ret.word_list) >= 2
    /\ IsFuture(ret.before_words, ret.at, ret.word_list[1])
    /\ IsFuture(ret.before_words, ret.at, ret.word_list[2])
    /\ DurLess(TimeToDue(ret.before_words, ret.at, ret.word_list[2]),
               TimeToDue(ret.before_words, ret.at, ret.word_list[1]))
    /\ ret.result.val = ret.word_list[2]

\* C6: next_word on an empty list fails with "word_list must not be empty",
\* whatever the model holds, and leaves the model as it was.
C6_NextWordEmptyListPanics ==
    (ret.op = "next_word" /\ ret.word_list = <<>>) =>
        /\ ~ret.result.ok
        /\ ret.result.msg = "word_list must not be empty"
        /\ seen_words = ret.before_words
        /\ seen_exercises = ret.before_exercises

\* the call on a model that holds records
C6_Witness ==
    /\ ret.op = "next_word"
    /\ ret.word_list = <<>>
    /\ ~ret.result.ok
    /\ Cardinality(DOMAIN seen_words) >= 2

---------------------------------------------------------------------------
(* Properties of the memory record.  ret.before is the record as the call  *)
(* found it, seen_words[ret.word] the record as the call left it.          *)

Nanos(n) == [secs |-> 0, nanos |-> n]

\* new = k * old as counts of nanoseconds, for k dividing NanosPerSec: c is
\* the carry of k * old.nanos into the seconds
IsTimes(new, old, k) ==
    \E c \in 0..(k - 1) :
        /\ new.secs = k * old.secs + c
        /\ new.nanos % k = 0
        /\ (new.nanos \div k) + c * (NanosPerSec \div k) = old.nanos

AfterSuccess == ret.op = "success"

WasDue == DurLeq(ret.before.target_date, ret.at)

\* C7: success(now) on a record with dueAt <= now multiplies the interval by
\* exactly 5; in both branches the new dueAt is now plus the new interval.
C7_SuccessWhenDueTimesFive ==
    AfterSuccess =>
        LET a == seen_words[ret.word]
        IN  /\ WasDue =>
                IsTimes(a.memory_strength, ret.before.memory_strength, 5)
            /\ DurSub(a.target_date, ret.at) = a.memory_strength

\* a success after the due date has passed, on an interval that has grown
C7_Witness ==
    /\ AfterSuccess
    /\ DurLess(ret.before.target_date, ret.at)
    /\ ret.before.memory_strength.nanos # 0

\* C8, as claimed: success(now) on a record with now < dueAt multiplies the
\* interval by exactly 1.02, that is 50 * (new - old) = old.
C8_SuccessBeforeDueTimesExactly102 ==
    (AfterSuccess /\ ~WasDue) =>
        LET old == ret.before.memory_strength
            new == seen_words[ret.word].memory_strength
        IN  IsTimes(old, DurSub(new, old), LightDivisor)

\* C8, amended: success(now) on a record with now < dueAt adds to the
\* interval its fiftieth rounded down to a whole nanosecond: with r the
\* remainder of old by 50 ns, 50 * (new - old) = old - r.  The factor is
\* exactly 1.02 when, and only when, r = 0.
C8_SuccessBeforeDueAddsFiftiethRoundedDown ==
    (AfterSuccess /\ ~WasDue) =>
        LET old == ret.before.memory_strength
            new == seen_words[ret.word].memory_strength
            r   == old.nanos % LightDivisor
        IN  /\ IsTimes(DurSub(old, Nanos(r)), DurSub(new, old), LightDivisor)
            /\ r = 0 <=> IsTimes(old, DurSub(new, old), LightDivisor)

\* a light reinforcement of an interval that is no multiple of 50 ns
C8_Witness ==
    /\ AfterSuccess
    /\ ~WasDue
    /\ ret.before.memory_strength.nanos % LightDivisor # 0

\* C9: fail(now) sets the interval to 5 seconds and dueAt to now + 5 seconds,
\* whatever they were.
C9_FailResetsToFiveSeconds ==
    ret.op = "fail" =>
        LET a == seen_words[ret.word]
        IN  /\ a.memory_strength = [secs |-> 5, nanos |-> 0]
            /\ DurSub(a.target_date, ret.at) = [secs |-> 5, nanos |-> 0]

\* a fail on a record whose interval had grown and whose date was elsewhere
C9_Witness ==
    /\ ret.op = "fail"
    /\ ret.before.memory_strength # [secs |-> 5, nanos |-> 0]
    /\ DurSub(ret.before.target_date, ret.at) # [secs |-> 5, nanos |-> 0]

\* C10, as claimed: every record has interval > 0 and dueAt = the time of its
\* last update (with_proficiency, success or fail) + its interval.
C10_DueIsLastUpdatePlusInterval ==
    \A w \in DOMAIN seen_words :
        /\ DurLess(Zero, seen_words[w].memory_strength)
        /\ DurSub(seen_words[w].target_date, last_update[w].at)
              = seen_words[w].memory_strength

\* C10, amended: every record has interval > 0; a record whose last update
\* was a success or a fail has dueAt = the time of that update + its
\* interval; a record that with_proficiency created and nothing has updated
\* since has dueAt = the time of its creation, and the interval 5 seconds.
C10_IntervalPositiveDueSetByLastUpdate ==
    \A w \in DOMAIN seen_words :
        /\ w \in DOMAIN last_update
        /\ DurLess(Zero, seen_words[w].memory_strength)
        /\ last_update[w].op \in {"success", "fail"} =>
              DurSub(seen_words[w].target_date, last_update[w].at)
                 = seen_words[w].memory_strength
        /\ last_update[w].op = "init" =>
              /\ seen_words[w].target_date = last_update[w].at
              /\ seen_words[w].memory_strength = [secs |-> 5, nanos |-> 0]

\* a record just created beside one updated earlier, with_proficiency having
\* been called on the latter again
C10_Witness ==
    /\ ret.op = "with_proficiency"
    /\ ret.was_seen
    /\ last_update[ret.word].op = "success"
    /\ DurLess(last_update[ret.word].at, now)
    /\ \E w \in DOMAIN seen_words : last_update[w].op = "init"

---------------------------------------------------------------------------
(* Properties of the views.                                                *)

\* the position of the first segment with a reading whose text is w
FirstAt(segs, w) ==
    CHOOSE i \in DOMAIN segs :
        /\ HasReading(segs[i]) /\ segs[i].chinese = w
        /\ \A j \in 1..(i - 1) : ~(HasReading(segs[j]) /\ segs[j].chinese = w)

\* C2: words() returns the texts of the segments with a reading, in the
\* order of their first occurrence, each once -- also when a word occurs in
\* two segments that are not neighbours; a segment without reading never
\* appears.
C2_WordsAreDistinctInFirstOccurrenceOrder ==
    ret.op = "words" =>
        LET ws   == ret.result
            segs == exercise.segments
        IN  /\ {ws[i] : i \in DOMAIN ws}
                  = {segs[i].chinese : i \in {j \in DOMAIN segs : HasReading(segs[j])}}
            /\ \A i, j \in DOMAIN ws : i # j => ws[i] # ws[j]
            /\ \A i, j \in DOMAIN ws :
                  i < j => FirstAt(segs, ws[i]) < FirstAt(segs, ws[j])

---------------------------------------------------------------------------
(* Properties of the memory records over a run.                            *)

\* C11: in every step every word that has a record keeps one, and its
\* memory_strength after the step is at least what it was before, unless the
\* step is fail on that word.
C11_IntervalNeverDecreasesButByFail ==
    [][\A w \in DOMAIN seen_words :
          /\ w \in DOMAIN seen_words'
          /\ ~(ret'.op = "fail" /\ ret'.word = w) =>
                ~DurLess(seen_words'[w].memory_strength,
                         seen_words[w].memory_strength)]_vars

\* a success before the due date has raised the strength of its word, while
\* another word has a record too
C11_Witness ==
    /\ ret.op = "success"
    /\ DurLess(ret.at, ret.before.target_date)
    /\ DurLess(ret.before.memory_strength,
               seen_words[ret.word].memory_strength)
    /\ \E w \in DOMAIN seen_words : w # ret.word

---------------------------------------------------------------------------
(* Properties of next_exercise, score_exercise, mark_seen and status.      *)

\* ex has a segment with a reading whose text is w
HasWord(ex, w) ==
    \E k \in DOMAIN ex.segments :
        ex.segments[k].pinyin # <<>> /\ ex.segments[k].chinese = w

AfterNextExercise == ret.op = "next_exercise" /\ ret.at = now

\* the positions of the pool whose Exercise has the target word
Candidates == {i \in DOMAIN ret.exercises :
                  HasWord(ret.exercises[i], ret.target_word)}

ScoreNow(ex) ==
    score_exercise(seen_words, seen_exercises, now, ex, ret.word_list)

\* C12: next_exercise returns None exactly when no Exercise of the pool has
\* the target word among its words; otherwise it returns an Exercise of the
\* pool that has the target word and whose score no other Exercise of the
\* pool with the target word is below.
C12_NextExerciseAbsentOrLeastScore ==
    AfterNextExercise =>
        /\ ~ret.result.some <=> Candidates = {}
        /\ ret.result.some =>
              /\ \E i \in Candidates : ret.exercises[i] = ret.result.val
              /\ \A j \in Candidates :
                    ~ScoreLess(ScoreNow(ret.exercises[j]),
                               ScoreNow(ret.result.val))

\* next_exercise chose between two Exercises with the target word that score
\* differently, from a pool that also has an Exercise without it
C12_Witness ==
    /\ AfterNextExercise
    /\ ret.result.some
    /\ \E i, j \in Candidates :
          ScoreLess(ScoreNow(ret.exercises[i]), ScoreNow(ret.exercises[j]))
    /\ \E k \in DOMAIN ret.exercises : k \notin Candidates


AfterScore == ret.op = "score_exercise" /\ ret.at = now

\* the words of ex: the texts of its segments with a reading, each once
WordSet(ex) ==
    {ex.segments[k].chinese :
        k \in {j \in DOMAIN ex.segments : ex.segments[j].pinyin # <<>>}}

ListSet(wl) == {wl[i] : i \in DOMAIN wl}

FutureWords(ex) ==
    {w \in WordSet(ex) :
        w \in DOMAIN seen_words /\ DurLess(now, seen_words[w].target_date)}

\* C13: with W the words of the Exercise, score_exercise returns
\* future_words_count = the number of words of W with a record due after
\* now, words_in_list = the number of the other words of W that are in the
\* list, words_not_in_list = the number of the other words of W that are not
\* in the list, words_not_seen = the number of words of W without record,
\* last_seen_date = the time the Exercise was marked seen, or None.
C13_ScoreCountsTheWordsOfTheExercise ==
    AfterScore =>
        LET ex == ret.exercise
            r == ret.result
            NotFuture == WordSet(ex) \ FutureWords(ex)
        IN  /\ r.future_words_count = Cardinality(FutureWords(ex))
            /\ r.words_in_list
                  = Cardinality(NotFuture \cap ListSet(ret.word_list))
            /\ r.words_not_in_list
                  = Cardinality(NotFuture \ ListSet(ret.word_list))
            /\ r.words_not_seen
                  = Cardinality(WordSet(ex) \ DOMAIN seen_words)
            /\ r.last_seen_date
                  = IF ex \in DOMAIN seen_exercises
                    THEN Some(seen_exercises[ex]) ELSE None


\* the fields of a score in the order of the comparison; an absent
\* last_seen_date comes before every date
ScoreKey(sc) ==
    <<sc.words_not_in_list, sc.words_in_list, sc.words_not_seen,
      IF sc.last_seen_date.some THEN 1 ELSE 0,
      IF sc.last_seen_date.some THEN sc.last_seen_date.val.secs ELSE 0,
      IF sc.last_seen_date.some THEN sc.last_seen_date.val.nanos ELSE 0,
      sc.future_words_count>>

LexLess(a, b) ==
    \E k \in DOMAIN a :
        a[k] < b[k] /\ \A j \in 1..(k - 1) : a[j] = b[j]

SameCounts(a, b) ==
    /\ a.words_not_in_list = b.words_not_in_list
    /\ a.words_in_list = b.words_in_list
    /\ a.words_not_seen = b.words_not_seen

AfterMarkSeen == ret.op = "mark_seen"

\* C15: mark_seen(exercise, at) leaves seen_exercises[exercise] = at, also
\* when an equal Exercise had an earlier time; seen_words and the entries of
\* all other Exercises are as before.
C15_MarkSeenSetsOneEntry ==
    AfterMarkSeen =>
        /\ ret.exercise \in DOMAIN seen_exercises
        /\ seen_exercises[ret.exercise] = ret.at
        /\ seen_words = ret.before_words
        /\ DOMAIN seen_exercises
              = DOMAIN ret.before_exercises \cup {ret.exercise}
        /\ \A e \in DOMAIN ret.before_exercises :
              e # ret.exercise => seen_exercises[e] = ret.before_exercises[e]

\* an Exercise marked seen earlier was marked seen again at a later time
C15_Witness ==
    /\ AfterMarkSeen
    /\ ret.exercise \in DOMAIN ret.before_exercises
    /\ DurLess(ret.before_exercises[ret.exercise], ret.at)


AfterStatus == ret.op = "status" /\ ret.at = now

\* the Exercises of the pool with a word of the list and a record for every
\* word
Unlocked ==
    {ex \in {ret.exercises[i] : i \in DOMAIN ret.exercises} :
        /\ WordSet(ex) \cap ListSet(ret.word_list) # {}
        /\ WordSet(ex) \subseteq DOMAIN seen_words}

---------------------------------------------------------------------------
(* Properties of the training session.                                     *)

UnwrapNone == "called Option::unwrap() on a None value"

\* C17: when next_exercise returns None for the target word, at the start of
\* the session or after an Exercise is completed, the session goes on: it
\* never ends abnormally because of it.
C17_AbsentExerciseDoesNotEndTheSession ==
    ret.op \in {"new", "key"} => ret.panic # UnwrapNone

\* C18: between two key events of a running or ended session the UserModel
\* in the file is the UserModel in memory: every success, fail and mark_seen
\* was followed by store() before the next key is read.
C18_StoredIsTheModelBetweenEvents ==
    session \in {"running", "exited"} =>
        stored = Persisted(seen_words, seen_exercises)

---------------------------------------------------------------------------
(* Properties of join_with in strict mode.                                 *)

\* the first candidate, in the order they are tried, whose reading is a
\* prefix of the romanized cursor
Match ==
    FirstMatch(Reverse(lookup_entries(chinese)), 0, trim_start(pinyin),
               lookup_entries(chinese), lax_pinyin)

Matching ==
    /\ outcome = Running
    /\ chinese # <<>>
    /\ lookup_entries(chinese) # <<>>
    /\ Match.found

IsLetter(c) == c \notin {" ", ".", "'"}

\* C19: when a candidate's reading matches and what is left of the romanized
\* cursor starts with a letter, join_with in strict mode panics with
\* "Segmentation failed" at once, no segment added and no further candidate
\* tried; with strict mode off the match is committed.
C19_StrictFailsInsideAWord ==
    [][Matching /\ Match.new_pinyin # <<>>
            /\ IsLetter(Head(Match.new_pinyin)) =>
          IF strict_segmentation
          THEN /\ outcome'.kind = "panic"
               /\ outcome'.msg = "Segmentation failed"
               /\ outcome'.reading = Match.pretty_compact
               /\ segments' = segments
               /\ chinese' = chinese
          ELSE /\ outcome' = Running
               /\ segments' = Append(segments,
                                Segment(Match.entry.simplified, Match.pretty))
               /\ pinyin' = Match.new_pinyin]_vars

\* join_with in strict mode has panicked with "Segmentation failed" at a
\* candidate that was not the first one tried
C19_Witness ==
    /\ strict_segmentation
    /\ outcome.kind = "panic"
    /\ outcome.msg = "Segmentation failed"
    /\ Len(lookup_entries(chinese)) >= 2
    /\ outcome.reading
          # Without(prettify(Reverse(lookup_entries(chinese))[1].pinyin), " ")

\* C20: when a candidate's reading matches and nothing is left of the
\* romanized cursor, the segment is committed and join_with goes on, in
\* strict mode as with strict mode off.
C20_MatchToTheEndIsCommitted ==
    [][Matching /\ Match.new_pinyin = <<>> =>
          /\ outcome' = Running
          /\ segments' = Append(segments,
                            Segment(Match.entry.simplified, Match.pretty))
          /\ pinyin' = <<>>]_vars

---------------------------------------------------------------------------
(* Properties of join_with where no candidate matches.                     *)

\* the number of spaces the romanized cursor starts with
LeadingSpaces(text) ==
    CHOOSE k \in 0..Len(text) :
        /\ \A i \in 1..k : text[i] = " "
        /\ k = Len(text) \/ text[k + 1] # " "

\* the romanized cursor at this position, leading whitespace skipped
Cursor == Drop(pinyin, LeadingSpaces(pinyin))

CandidatesHere == lookup_entries(chinese)

Compact(entry) == Without(to_lowercase(prettify(entry.pinyin)), " ")

\* the tone-insensitive comparison is in use at this position
LaxHere ==
    lax_pinyin /\ MaxLen(CandidatesHere) >= 2 /\ NLongest(CandidatesHere) = 1

\* no candidate's reading starts the cursor, by either comparison in use
NoneMatches ==
    \A i \in DOMAIN CandidatesHere :
        /\ ~IsPrefix(Compact(CandidatesHere[i]), Cursor)
        /\ LaxHere =>
              ~strip_prefix_no_tones(Cursor, Compact(CandidatesHere[i])).some

Orders(q) ==
    {p \in [DOMAIN q -> DOMAIN q] : \A i, j \in DOMAIN q : p[i] = p[j] => i = j}

InOrder(q, p) == [i \in DOMAIN q |-> q[p[i]]]

AtCandidates == outcome = Running /\ chinese # <<>> /\ CandidatesHere # <<>>

FailsEitherWay ==
    \A p \in Orders(CandidatesHere) :
        ~FirstMatch(InOrder(CandidatesHere, p), 0, Cursor, CandidatesHere,
                    lax_pinyin).found

---------------------------------------------------------------------------
(* Properties of Exercise::parse and Convert.                              *)

AfterParse == ret.op = "parse"

\* the lines parse was given, the blank ones at the ends aside
ParsedLines == trim_lines(ret.input)

ThreeKeyLines ==
    Len(ParsedLines) >= 3 /\ \A i \in 1..3 : ParsedLines[i].colon

\* the first three lines carry Chinese, Pinyin, English in that order
KeysInOrder ==
    /\ ThreeKeyLines
    /\ <<ParsedLines[1].key, ParsedLines[2].key, ParsedLines[3].key>> =
           <<"Chinese", "Pinyin", "English">>

\* the first three lines carry Chinese, Pinyin, English, each once
KeysEachOnce ==
    /\ ThreeKeyLines
    /\ {ParsedLines[i].key : i \in 1..3} = {"Chinese", "Pinyin", "English"}

\* parse gave no record and Convert stopped at it
StoppedAtRemainder ==
    /\ ret.result.kind = "none"
    /\ convert = [kind |-> "panic", msg |-> "Failed to parse at",
                  at |-> ParsedLines]
    /\ printed = ret.printed
    /\ rest = ret.input

---------------------------------------------------------------------------
(* Properties of Exercise::pinyin.                                         *)

RECURSIVE JoinWithSpaces(_)
JoinWithSpaces(readings) ==
    IF readings = <<>> THEN <<>>
    ELSE IF Len(readings) = 1 THEN readings[1]
    ELSE Head(readings) \o <<" ">> \o JoinWithSpaces(Tail(readings))

Reading(seg) == seg.pinyin

RECURSIVE Readings(_)
Readings(segs) ==
    IF segs = <<>> THEN <<>>
    ELSE <<Reading(Head(segs))>> \o Readings(Tail(segs))

NotEmpty(reading) == reading # <<>>

\* C23: the text Exercise::pinyin returns is the readings of the segments
\* that have one, in order, with one space between every two of them; a
\* segment without a reading adds nothing, not even a space.
C23_PinyinJoinsTheNonEmptyReadings ==
    ret.op = "pinyin" =>
        ret.result =
            JoinWithSpaces(SelectSeq(Readings(exercise.segments), NotEmpty))

---------------------------------------------------------------------------
(* Properties of next_exercise on equal scores and on the order of the     *)
(* pool.                                                                   *)

\* the positions of the pool with the target word that no other is below
Least ==
    {i \in Candidates :
        \A j \in Candidates :
            ~ScoreLess(ScoreNow(ret.exercises[j]), ScoreNow(ret.exercises[i]))}

FirstOf(S) == CHOOSE i \in S : \A j \in S : i <= j

\* C24: when several Exercises of the pool with the target word have the
\* least score, next_exercise returns the one that comes first in the pool.
C24_FirstOfTheLeastIsReturned ==
    AfterNextExercise /\ Candidates # {} =>
        ret.result = Some(ret.exercises[FirstOf(Least)])

\* two different Exercises had the least score
C24_Witness ==
    /\ AfterNextExercise
    /\ \E i, j \in Least : ret.exercises[i] # ret.exercises[j]
    /\ \E k \in Candidates : k \notin Least

\* next_exercise on the pool of the call put in the order p
Reordered(p) ==
    next_exercise(seen_words, seen_exercises, now,
                  InOrder(ret.exercises, p), ret.word_list, ret.target_word)

---------------------------------------------------------------------------
(* Properties of the tone-insensitive comparison of join_with.             *)

\* the candidate the for loop tries first
FirstTried == CandidatesHere[Len(CandidatesHere)]

\* this turn of the loop commits the entry as a segment
Commits(entry) ==
    /\ outcome' = Running
    /\ segments' =
           Append(segments, Segment(entry.simplified, prettify(entry.pinyin)))

SameLetters(a, b, n) == \A k \in 1..n : strip_tone(a[k]) = strip_tone(b[k])

\* C26: where join_with compares tone-insensitively, the comparison by
\* strip_prefix_no_tones succeeds, and the candidate is committed, only if
\* the cursor has a character for every character of the candidate's compact
\* reading, each the same letter as the reading's when the tone marks are
\* taken off; the cursor left is the cursor without as many characters as
\* the compact reading has.
C26_NoTonesStripsTheWholeReading ==
    [][AtCandidates /\ LaxHere /\ Commits(FirstTried) =>
          /\ Len(Cursor) >= Len(Compact(FirstTried))
          /\ SameLetters(Cursor, Compact(FirstTried),
                         Len(Compact(FirstTried)))
          /\ pinyin' = Drop(Cursor, Len(Compact(FirstTried)))]_vars


\* the length of the longest candidate here
LongestLen ==
    CHOOSE n \in {Len(CandidatesHere[i].simplified) : i \in DOMAIN CandidatesHere} :
        \A i \in DOMAIN CandidatesHere : Len(CandidatesHere[i].simplified) <= n

\* the readings of the longest candidates here
LongestReadings ==
    {CandidatesHere[i].pinyin :
        i \in {j \in DOMAIN CandidatesHere :
                  Len(CandidatesHere[j].simplified) = LongestLen}}

\* this turn of the loop found the entry's reading at the cursor
Matched(entry) ==
    \/ Commits(entry)
    \/ /\ outcome'.kind = "panic"
       /\ outcome'.msg = "Segmentation failed"
       /\ outcome'.reading = Compact(entry)

\* C27: a candidate is matched tone-insensitively only when lax_pinyin is
\* on, the longest candidate has two characters or more, the longest
\* candidates have one reading between them, and the candidate is the first
\* one tried; any other candidate, and any candidate when lax_pinyin is off,
\* is matched only if its compact reading starts the cursor exactly.
C27_TonesIgnoredForTheFirstCandidateOnly ==
    [][AtCandidates =>
          \A i \in DOMAIN CandidatesHere :
              Matched(CandidatesHere[i]) =>
                  \/ IsPrefix(Compact(CandidatesHere[i]), Cursor)
                  \/ /\ lax_pinyin
                     /\ LongestLen >= 2
                     /\ Cardinality(LongestReadings) = 1
                     /\ i = Len(CandidatesHere)
                     /\ Len(Cursor) >= Len(Compact(CandidatesHere[i])) =>
                           SameLetters(Cursor, Compact(CandidatesHere[i]),
                                       Len(Compact(CandidatesHere[i])))]_vars

\* the first segment is a two-character word whose reading is not the start
\* of the transcription, which has other tones
C27_Witness ==
    /\ outcome = Returned
    /\ lax_pinyin
    /\ segments # <<>>
    /\ Len(segments[1].chinese) = 2
    /\ Len(orig_pinyin) >= Len(Without(segments[1].pinyin, " "))
    /\ ~IsPrefix(Without(segments[1].pinyin, " "), orig_pinyin)


\* the comparison the ith candidate gets does not find its reading
FailsHere(i) ==
    IF LaxHere /\ i = Len(CandidatesHere)
    THEN ~strip_prefix_no_tones(Cursor, Compact(CandidatesHere[i])).some
    ELSE ~IsPrefix(Compact(CandidatesHere[i]), Cursor)

\* the jth candidate is longer than the ith, or comes after it in the results
Before(j, i) ==
    \/ Len(CandidatesHere[j].simplified) > Len(CandidatesHere[i].simplified)
    \/ j > i

LaxOnlyAt(c, p) ==
    LET results == lookup_entries(c)
        first == Without(to_lowercase(prettify(results[Len(results)].pinyin)),
                         " ")
    IN  /\ results # <<>>
        /\ MaxLen(results) >= 2
        /\ NLongest(results) = 1
        /\ strip_prefix_no_tones(trim_start(p), first).some
        /\ ~IsPrefix(first, trim_start(p))

RECURSIVE LaxOnlyOnTheWay(_, _, _, _)
\* join_with without lax_pinyin comes to such a position from c and p on
LaxOnlyOnTheWay(c, p, segs, strict) ==
    IF c = <<>> THEN FALSE
    ELSE \/ LaxOnlyAt(c, p)
         \/ LET r == join_step(c, p, segs, strict, FALSE, <<>>, <<>>)
            IN  /\ r.outcome = Running
                /\ LaxOnlyOnTheWay(r.chinese, r.pinyin, r.segments, strict)

LaxOnlyMet ==
    LaxOnlyOnTheWay(StripSpaces(orig_chinese),
                    Without(to_lowercase(orig_pinyin), "'"), <<>>,
                    strict_segmentation)

\* join_with on the same texts with lax_pinyin on
WithLax == join_with(orig_chinese, orig_pinyin, strict_segmentation, TRUE)

\* C29 as stated: texts that join_with aligns with lax_pinyin off it aligns
\* with lax_pinyin on (strict_segmentation the same), to the same segments.
C29_LaxAlignsWhatExactAligns ==
    outcome = Returned /\ ~lax_pinyin =>
        WithLax = [kind |-> "ok", segments |-> segments]

\* C29: texts that join_with aligns with lax_pinyin off it aligns with
\* lax_pinyin on (strict_segmentation the same), to the same segments, unless
\* at some position on the way the one longest candidate, of two characters
\* or more, is found tone-insensitively and not exactly.
C29_LaxAlignsWhatExactAlignsElsewhere ==
    outcome = Returned /\ ~lax_pinyin /\ ~LaxOnlyMet =>
        WithLax = [kind |-> "ok", segments |-> segments]

\* texts aligned with lax_pinyin off, through a position where lax_pinyin on
\* compares tone-insensitively and the exact reading is there
C29_Witness ==
    /\ outcome = Returned
    /\ ~lax_pinyin
    /\ ~LaxOnlyMet
    /\ \E i \in DOMAIN segments : segments[i].chinese = <<"NI", "HAO">>

---------------------------------------------------------------------------
(* Properties of join_with where the dictionary has no candidate.          *)

NoCandidates == outcome = Running /\ chinese # <<>> /\ CandidatesHere = <<>>

LastEmpty == segments # <<>> /\ segments[Len(segments)].pinyin = <<>>

NoTwoEmptyTogether ==
    \A k \in 1..(Len(segments) - 1) :
        segments[k].pinyin # <<>> \/ segments[k + 1].pinyin # <<>>

\* C30: where the dictionary has no candidate, the turn takes one character
\* off the Chinese cursor and, leading whitespace skipped, at most one off
\* the romanized cursor; the character joins the last segment if that has
\* an empty reading and makes a new segment with an empty reading if not.
\* A turn with candidates that goes on adds a segment with a reading.  So
\* no two segments with empty readings are neighbours.
C30_UnalignedCharactersMakeOneSegment ==
    [][/\ NoCandidates =>
             /\ outcome' = Running
             /\ chinese' = Tail(chinese)
             /\ pinyin' = IF Cursor = <<>> THEN <<>> ELSE Tail(Cursor)
             /\ segments' =
                    IF LastEmpty
                    THEN [segments EXCEPT ![Len(segments)].chinese =
                              @ \o <<Head(chinese)>>]
                    ELSE Append(segments, Segment(<<Head(chinese)>>, <<>>))
       /\ AtCandidates /\ outcome' = Running =>
             /\ Len(segments') = Len(segments) + 1
             /\ SubSeq(segments', 1, Len(segments)) = segments
             /\ segments'[Len(segments')].pinyin # <<>>
       /\ NoTwoEmptyTogether']_vars

\* two characters without candidates made one segment, after whitespace and
\* a character of the transcription were passed
C30_Witness ==
    /\ outcome = Returned
    /\ \E k \in DOMAIN segments :
          segments[k].pinyin = <<>> /\ Len(segments[k].chinese) = 2
    /\ Len(orig_pinyin) = 2 /\ orig_pinyin[1] = " "
    /\ pinyin = <<>>


---------------------------------------------------------------------------
(* Progress of the loop of join_with.                                      *)

AtTurn == outcome = Running /\ chinese # <<>>

IsSuffix(s, t) ==
    Len(s) <= Len(t) /\ s = SubSeq(t, Len(t) - Len(s) + 1, Len(t))

\* the segments are the old ones and one more, or the old ones with a last
\* segment of empty reading that got characters appended
SegmentsKept(old, new) ==
    \/ Len(new) = Len(old) + 1 /\ SubSeq(new, 1, Len(old)) = old
    \/ /\ old # <<>>
       /\ Len(new) = Len(old)
       /\ SubSeq(new, 1, Len(old) - 1) = SubSeq(old, 1, Len(old) - 1)
       /\ old[Len(old)].pinyin = <<>>
       /\ new[Len(new)].pinyin = <<>>
       /\ IsPrefix(old[Len(old)].chinese, new[Len(new)].chinese)

RECURSIVE EndsWithin(_, _, _, _)
RECURSIVE EndsOn(_, _)
\* the loop from (c, p, segs) returns or panics within n turns
EndsWithin(c, p, segs, n) ==
    IF c = <<>> THEN TRUE
    ELSE IF n = 0 THEN FALSE
    ELSE EndsOn(join_step(c, p, segs, strict_segmentation, lax_pinyin,
                          StripSpaces(orig_chinese), orig_pinyin), n - 1)

EndsOn(r, n) ==
    IF r.outcome = Running
    THEN EndsWithin(r.chinese, r.pinyin, r.segments, n)
    ELSE TRUE

\* C31: a turn of the loop that goes on leaves a Chinese cursor that is a
\* strictly shorter suffix of the one it found and a romanized cursor that is
\* a suffix of the one it found; it keeps the segments it found, adding one
\* or appending to a last segment of empty reading.  From every turn the loop
\* returns or panics within as many turns as the Chinese cursor has
\* characters (at the first turn: the Chinese text without its spaces).
C31_CursorsOnlyMoveForward ==
    [][/\ AtTurn /\ outcome' = Running =>
             /\ IsSuffix(chinese', chinese)
             /\ Len(chinese') < Len(chinese)
             /\ IsSuffix(pinyin', pinyin)
             /\ SegmentsKept(segments, segments')
       /\ AtTurn => EndsWithin(chinese, pinyin, segments, Len(chinese))
       /\ ~AtTurn => segments' = segments]_vars

\* an alignment of two turns, a commit and then a character without
\* candidates, both cursors moved
C31_Witness ==
    /\ outcome = Returned
    /\ Len(segments) = 2
    /\ segments[1].chinese = <<"NI">>
    /\ segments[2].pinyin = <<>>
    /\ Len(orig_pinyin) > 2
    /\ pinyin = <<>>


---------------------------------------------------------------------------
(* Properties of the answers of a training session.                        *)

\* a key other than Ctrl-C is handled
KeyStep ==
    /\ session = "running"
    /\ nOps' = nOps + 1
    /\ ret'.op = "key"
    /\ ret'.key.key # "ctrl_c"

\* the number of segments the key event answered
AnsweredNow == ret'.index - app_index

\* the hint is shown for the segment at App.index when the key is handled
HintShown == app_show_hint \/ ret'.key.key = "esc"

\* seen_words after the segments k..last of ex were answered in turn, the
\* hint shown for the first of them only: one fail or success per segment
\* with a reading, on the record of its word, made first if absent
RECURSIVE Reviews(_, _, _, _, _, _)
Reviews(sw, ex, k, last, hint, at) ==
    IF k > last THEN sw
    ELSE LET word == ex.segments[k].chinese
             had == IF word \in DOMAIN sw THEN sw[word] ELSE NewProficiency(at)
             sw2 == IF ex.segments[k].pinyin = <<>> THEN sw
                    ELSE [w \in DOMAIN sw \cup {word} |->
                             IF w # word THEN sw[w]
                             ELSE IF hint THEN fail(had, at)
                             ELSE success(had, at)]
         IN  Reviews(sw2, ex, k + 1, last, FALSE, at)

\* C32: a key event updates seen_words once for each segment with a reading
\* that it answers, on the segment's word (its Proficiency made first if
\* absent): fail if the hint was shown for that segment, success if not.
\* Segments with an empty reading are passed without an update.  show_hint
\* is false after every answered segment, so only the segment the hint was
\* shown for can be a fail.
C32_OneUpdatePerAnsweredSegment ==
    [][KeyStep =>
          /\ AnsweredNow >= 0
          /\ seen_words' = Reviews(seen_words, app_exercise, app_index + 1,
                                   app_index + AnsweredNow, HintShown, now)
          /\ app_show_hint' = (HintShown /\ AnsweredNow = 0)
          /\ \A n \in DOMAIN ret'.updates :
                ret'.updates[n].kind = "fail" => n = 1 /\ HintShown]_vars

\* WO was answered with the hint shown and SHI after it without
C32_Witness ==
    /\ session = "running"
    /\ <<"WO">> \in DOMAIN last_update
    /\ <<"SHI">> \in DOMAIN last_update
    /\ last_update[<<"WO">>].op = "fail"
    /\ last_update[<<"SHI">>].op = "success"
    /\ last_update[<<"WO">>].at = last_update[<<"SHI">>].at


\* every segment of App.exercise is answered once the key is handled
Done == ret'.index >= Len(app_exercise.segments)

\* seen_exercises with the entry of ex set to at and no other entry touched
MarkedSeen(old, new, ex, at) ==
    /\ DOMAIN new = DOMAIN old \cup {ex}
    /\ new[ex] = at
    /\ \A e \in DOMAIN old \ {ex} : new[e] = old[e]

\* C33: mark_seen is called for App.exercise by the key event that answers
\* its last segment, and by no other; the same event then takes the next
\* target word from next_word and the next Exercise from next_exercise with
\* that word, both on the UserModel as mark_seen left it.  An event that
\* leaves a segment unanswered keeps seen_exercises, the target word and the
\* Exercise.
C33_MarkSeenThenSelectAtCompletion ==
    [][/\ KeyStep /\ Done =>
             MarkedSeen(seen_exercises, seen_exercises', app_exercise, now)
       /\ KeyStep /\ Done /\ session' = "running" =>
             /\ app_target_word' =
                    next_word(seen_words', now, app_word_list).val
             /\ app_exercise' =
                    next_exercise(seen_words', seen_exercises', now,
                                  app_exercises, app_word_list,
                                  app_target_word').val
             /\ app_index' = 0
       /\ KeyStep /\ ~Done =>
             /\ session' = "running"
             /\ app_index' = ret'.index
             /\ UNCHANGED <<seen_exercises, app_target_word, app_exercise>>
       /\ ~KeyStep /\ session # "start" =>
             UNCHANGED <<seen_exercises, app_target_word, app_exercise,
                         app_index>>]_vars

\* an Exercise of two segments with readings was completed in two key
\* events and the session went on to the next Exercise
C33_Witness ==
    /\ session = "running"
    /\ ExWoShi \in DOMAIN seen_exercises
    /\ ret.op = "key"
    /\ ret.completed
    /\ nOps >= 2
    /\ app_index = 0


---------------------------------------------------------------------------
(* What the updates of the UserModel leave alone.                          *)

WithProficiencyStep == nOps' = nOps + 1 /\ ret'.op = "with_proficiency"

\* C34: with_proficiency(word, now) makes the Proficiency of word, with
\* memory_strength 5 s and target_date now, only if word has none; if it has
\* one, seen_words is left as it is.  The Proficiency of no other word and
\* no entry of seen_exercises is touched.  No step takes a word out of
\* seen_words or an Exercise out of seen_exercises.
C34_WithProficiencyCreatesOnceAndNothingIsRemoved ==
    [][/\ DOMAIN seen_words \subseteq DOMAIN seen_words'
       /\ DOMAIN seen_exercises \subseteq DOMAIN seen_exercises'
       /\ WithProficiencyStep =>
             /\ seen_exercises' = seen_exercises
             /\ DOMAIN seen_words' = DOMAIN seen_words \cup {ret'.word}
             /\ \A w \in DOMAIN seen_words : seen_words'[w] = seen_words[w]
             /\ ret'.word \notin DOMAIN seen_words =>
                   seen_words'[ret'.word] =
                       [target_date |-> now,
                        memory_strength |-> Seconds(5)]]_vars

\* with_proficiency was called for a word without a Proficiency while
\* another word had one that a success had changed
C34_Witness ==
    /\ ret.op = "with_proficiency"
    /\ ~ret.was_seen
    /\ \E w \in DOMAIN seen_words :
          w # ret.word /\ seen_words[w].memory_strength # Seconds(5)


---------------------------------------------------------------------------
(* The first answer on a word.                                             *)

\* C35: when a key event answers a segment whose word has no Proficiency,
\* the word gets one: memory_strength 25 s and target_date now + 25 s if the
\* hint was not shown (with_proficiency makes it due at now, so success
\* takes its strong branch), memory_strength 5 s and target_date now + 5 s
\* if it was.
C35_FirstAnswerOnANewWord ==
    [][KeyStep =>
          \A n \in DOMAIN ret'.updates :
              LET word == ret'.updates[n].word
              IN  word \notin DOMAIN seen_words =>
                      /\ word \in DOMAIN seen_words'
                      /\ seen_words'[word] =
                             IF HintShown
                             THEN [memory_strength |-> Seconds(5),
                                   target_date |-> DurAdd(now, Seconds(5))]
                             ELSE [memory_strength |-> Seconds(25),
                                   target_date |-> DurAdd(now, Seconds(25))]
      ]_vars

\* a word was answered for the first time, without the hint, one second
\* into the session
C35_Witness ==
    /\ ret.op = "key"
    /\ Len(ret.updates) = 1
    /\ ret.updates[1].kind = "success"
    /\ now = Seconds(1)
    /\ last_update = [w \in {ret.updates[1].word} |->
                         [at |-> now, op |-> "success"]]
    /\ seen_words[ret.updates[1].word].memory_strength = Seconds(25)


---------------------------------------------------------------------------
(* The counts of an ExerciseScore taken together.                          *)

\* C36: in every score, words_in_list + words_not_in_list +
\* future_words_count is the number of distinct words of the Exercise, and
\* words_not_seen is at most words_in_list + words_not_in_list.
C36_CountsAddUpToTheDistinctWords ==
    AfterScore =>
        LET r == ret.result
        IN  /\ r.words_in_list + r.words_not_in_list + r.future_words_count
                  = Cardinality(WordSet(ret.exercise))
            /\ r.words_not_seen <= r.words_in_list + r.words_not_in_list


---------------------------------------------------------------------------
(* The Exercises a training session has marked seen.                       *)

\* the Exercises of the pool with a word of the list that were marked seen
PresentedWithListWord ==
    {app_exercises[i] : i \in
        {j \in DOMAIN app_exercises :
            /\ app_exercises[j] \in DOMAIN seen_exercises
            /\ \E n \in DOMAIN words(app_exercises[j]) :
                  Contains(app_word_list, words(app_exercises[j])[n])}}

\* C37: in a training session started on an empty UserModel, every word of
\* every Exercise in seen_exercises has a Proficiency in seen_words; so
\* status counts every Exercise of the pool that was marked seen and has a
\* word of the list among its seen (and unlocked) sentences.
C37_PresentedExercisesHaveTheirWordsSeen ==
    /\ \A ex \in DOMAIN seen_exercises :
          \A n \in DOMAIN words(ex) : words(ex)[n] \in DOMAIN seen_words
    /\ session # "start" =>
          LET st == status(seen_words, seen_exercises, app_exercises,
                           app_word_list, now)
          IN  /\ st.seen_sentences = Cardinality(PresentedWithListWord)
              /\ st.unlocked_sentences >= st.seen_sentences

\* an Exercise of two words was answered to its end and marked seen
C37_Witness ==
    /\ \E ex \in DOMAIN seen_exercises : Len(words(ex)) >= 2
    /\ PresentedWithListWord # {}


---------------------------------------------------------------------------
(* Properties of the loop of Tile.                                         *)

\* a turn of the loop is taken
TileStep == tile = [kind |-> "running"] /\ assumed_words = <<>>

\* the positions of the list whose word has no Proficiency
Unseen == {i \in DOMAIN tile_words : tile_words[i] \notin DOMAIN seen_words}

FirstUnseen == CHOOSE i \in Unseen : \A j \in Unseen : i <= j

TileListWords == {tile_words[i] : i \in DOMAIN tile_words}

\* the first position of word w in the list
TileFirstAt(w) ==
    CHOOSE i \in DOMAIN tile_words :
        tile_words[i] = w /\ \A j \in 1..(i - 1) : tile_words[j] # w

\* no Proficiency is due at the now of Tile
NoneDue ==
    \A w \in DOMAIN seen_words : DurLess(now, seen_words[w].target_date)

\* the words selected so far are list words, each once, in list order
SelectedInListOrder ==
    /\ \A n \in DOMAIN tile_printed : tile_printed[n].word \in TileListWords
    /\ \A m, n \in DOMAIN tile_printed :
          m < n => TileFirstAt(tile_printed[m].word)
                       < TileFirstAt(tile_printed[n].word)

\* C38: with its one now, the loop of Tile never meets a due word.  A turn
\* takes the first word of the list that has no Proficiency, gives it one
\* and, if an Exercise holds the word, prints it and goes on (if none does,
\* the unwrap panics); the first turn that finds every word of the list with
\* a Proficiency breaks.  So every turn that goes on selects a new word, the
\* words are selected in list order, each once, and the loop is left after
\* at most as many selections as the list has distinct words.
C38_TileSelectsEachUnseenWordOnce ==
    [][/\ tile' # [kind |-> "start"] => NoneDue'
       /\ SelectedInListOrder'
       /\ Len(tile_printed') <= Cardinality(TileListWords)
       /\ TileStep /\ tile_words = <<>> =>
             tile'.kind = "panic" /\ tile_printed' = tile_printed
       /\ TileStep /\ tile_words # <<>> /\ Unseen = {} =>
             /\ tile' = [kind |-> "done"]
             /\ tile_printed' = tile_printed
             /\ seen_words' = seen_words
       /\ TileStep /\ Unseen # {} =>
             /\ tile_word' = tile_words[FirstUnseen]
             /\ tile_word' \in DOMAIN seen_words'
             /\ tile'.kind \in {"running", "panic"}
             /\ tile'.kind = "running" =>
                   /\ Len(tile_printed') = Len(tile_printed) + 1
                   /\ tile_printed'[Len(tile_printed')].word = tile_word'
                   /\ Contains(words(tile_printed'[Len(tile_printed')].exercise),
                               tile_word')
             /\ tile'.kind = "panic" =>
                   /\ tile_printed' = tile_printed
                   /\ \A n \in DOMAIN tile_exercises :
                         ~Contains(words(tile_exercises[n]), tile_word')
      ]_vars

\* a list of three words was left after two selections: the second word of
\* the list got its Proficiency from the Exercise of the first
C38_Witness ==
    /\ tile = [kind |-> "done"]
    /\ Len(tile_words) = 3
    /\ Len(tile_printed) = 2
    /\ tile_printed[1].word = tile_words[1]
    /\ tile_printed[2].word = tile_words[3]


---------------------------------------------------------------------------
(* Which due word a session takes next.                                    *)

Completes == ret.op = "key" /\ ret.completed

\* word w of the list is due
DueInList(w) ==
    /\ Contains(app_word_list, w)
    /\ w \in DOMAIN seen_words
    /\ DurLeq(seen_words[w].target_date, now)

\* how long ago word w fell due
Gap(w) == DurAbs(DurSub(seen_words[w].target_date, now))

\* the positions of the list whose word is due
DuePositions == {i \in DOMAIN app_word_list : DueInList(app_word_list[i])}

\* position i holds the due word that fell due last, the first of the list
\* among those that fell due together
LastDue(i) ==
    /\ i \in DuePositions
    /\ \A j \in DuePositions :
          /\ DurLeq(Gap(app_word_list[i]), Gap(app_word_list[j]))
          /\ Gap(app_word_list[i]) = Gap(app_word_list[j]) => i <= j

\* C39 as claimed: in a session that completes Exercises again and again, a
\* word of the list that is due becomes the target word; no word stays due
\* without being the target word from some time on.
C39_NoDueWordIsPostponedForEver ==
    []<>Completes =>
        \A w \in PoolWords :
            ~<>[](DueInList(w) /\ app_target_word # w)

\* C39 as the session behaves: when an Exercise is completed and words of
\* the list are due, the next target word is the due word that fell due
\* last (the first of the list among equals).  A due word is taken at the
\* first completion at which no other word of the list fell due after it;
\* while other words keep falling due after it, it waits.
C39_TheWordThatFellDueLastIsTaken ==
    [][Completes' /\ session' = "running" /\ DuePositions' # {} =>
              \E i \in DOMAIN app_word_list :
                  LastDue(i)' /\ app_target_word' = app_word_list[i]]_vars

\* an Exercise was completed while two words of the list were due, one of
\* them for longer than the other, which became the target word
C39_Witness ==
    /\ Completes
    /\ session = "running"
    /\ \E i, j \in DuePositions :
          /\ DurLess(Gap(app_word_list[i]), Gap(app_word_list[j]))
          /\ app_target_word = app_word_list[i]
====
